---- MODULE Spec2Model ----
(***************************************************************************)
(* Model of the tool execution engine of pkg/tool: the Executor (admission *)
(* semaphore, input validation, approval gate, attempt loop with retry and *)
(* backoff, priority-ordered batches).                                     *)
(***************************************************************************)
EXTENDS Integers, Sequences, FiniteSets, Bags, TLC

\* ------------------------------------------------------------------ bounds
\* Number of concurrent Execute calls of the concurrency specification.
NumCalls == 2
\* Largest RetryPolicy.MaxRetries drawn for a request.
MaxRetriesBound == 3

\* Number of concurrent callers of the Registry in the concurrent specification.
NumCallers == 2

\* Longest list of options passed to NewToolContext.
MaxOptions == 2

\* Last instant of the clock in the specifications where time passes.
MaxTime == 4

\* cfg.MaxConcurrency <= 0 is replaced by this default in NewExecutor.
DefaultMaxConcurrency == 5

\* cfg.DefaultTimeout <= 0 is replaced by 60 * time.Second in NewExecutor;
\* durations are counted in seconds.
DefaultTimeoutSeconds == 60

VARIABLES
    cfg,        \* the ExecutorConfig handed to NewExecutor
    executor,   \* the Executor built from it: [config, cap], cap = cap(semaphore)
    semaphore,  \* number of tokens currently in e.semaphore
    numCalls,   \* number of Execute calls of this run
    batchLen,   \* requests 1..batchLen form the ExecuteBatch call, the rest are direct
    requests,   \* requests[c]: the ExecuteRequest of call c
    ctx,        \* ctx[k]: state of caller context k ("live", "canceled")
    pc,         \* pc[c]: position of call c inside Execute
    deferred,   \* deferred[c]: the deferred slot release of call c is registered
    attempt,    \* attempt[c]: loop variable of the execution loop
    attempts,   \* attempts[c]: local variable attempts
    output,     \* output[c]: local variable output
    execErr,    \* execErr[c]: local variable execErr
    result,     \* result[c]: the value Execute returned, NoResult before
    history,    \* history[c]: what each invocation of the tool returned (observation)
    admitted,   \* admitted[c]: the call sent its token to the semaphore (observation)
    batchPc,    \* position of the ExecuteBatch call
    spawned,    \* number of items for which ExecuteBatch started a goroutine
    wg,         \* counter of the WaitGroup
    results,    \* the results slice of ExecuteBatch
    batchOut,   \* the slice ExecuteBatch returned, <<>> before
    now,        \* the clock read by time.Now()
    start,      \* start[c]: local variable start
    timeout,    \* timeout[c]: local variable timeout after policy resolution
    execCtx,    \* execCtx[c]: the context handed to the tool for the current attempt
    delay,      \* delay[c]: local variable delay of the last backoff
    timer,      \* timer[c]: instant at which time.After(delay) fires
    times,      \* times[c]: StartedAt, FinishedAt and Duration of result[c]
    registry,   \* the Registry: its maps factories and instances and its lock mu
    callers,    \* callers[k]: position, operation and return value of registry caller k
    tcBuild,    \* the NewToolContext call: its options, position and the ToolContext
    universe,   \* the names, tools, factories and configs the registry callers use
    impl        \* which of the two Executor sources the program is built from

execVars == <<cfg, executor, semaphore, numCalls, batchLen, requests, ctx, pc, deferred,
              attempt, attempts, output, execErr, result, history, admitted,
              batchPc, spawned, wg, results, batchOut>>

timeVars == <<now, start, timeout, execCtx, delay, timer, times>>

libVars == <<registry, callers, tcBuild, universe, impl>>

vars == <<execVars, timeVars, libVars>>

Calls == 1..numCalls

\* ------------------------------------------------------------ value domains
\* Strings whose content matters (error messages, retry patterns) are
\* sequences of characters.
EmptyString == <<>>

\* errors: kind tells which statement built the error, msg is err.Error()
NoErr == [kind |-> "nil", msg |-> EmptyString]

\* fmt.Errorf("missing required field: %s", field)
ValidationError(field) == [kind |-> "validation", msg |-> <<"missing required field: ", field>>]

\* fmt.Errorf("tool %s requires approval before execution", req.Tool.Name())
ApprovalError(name) == [kind |-> "approval", msg |-> <<"tool ", name, " requires approval before execution">>]

\* ctx.Err() of a context in state st
CtxErr(st) == [kind |-> "ctx", msg |-> <<st>>]

\* an error returned by the tool's own Execute
ToolErr(m) == [kind |-> "tool", msg |-> m]

NilOutput == 0
NoResult == [returned |-> FALSE]

\* a nil *RetryPolicy
NilPolicy == [isNil |-> TRUE, MaxRetries |-> 0, RetryableErrors |-> <<>>]

\* the zero values of the time fields of an ExecuteResult
NoTimes == [StartedAt |-> 0, FinishedAt |-> 0, Duration |-> 0]

\* a context that was not derived yet
NoContext == [parent |-> 0, hasDeadline |-> FALSE, deadline |-> 0]

\* BackoffMultiplier: a float64, kept as the fraction num/den
Ratio(n, d) == [num |-> n, den |-> d]

\* a nil *ToolContext
NilToolContext == [isNil |-> TRUE, Metadata |-> <<>>]

\* ------------------------------------------------------------- pure helpers
\* strings.Contains(s, substr)
Contains(s, substr) ==
    \E i \in 0..(Len(s) - Len(substr)) : SubSeq(s, i + 1, i + Len(substr)) = substr

\* isRetryable: the loop over policy.RetryableErrors, from index i on
RECURSIVE MatchesFrom(_, _, _)
MatchesFrom(errStr, patterns, i) ==
    IF i > Len(patterns) THEN FALSE
    ELSE IF Contains(errStr, patterns[i]) THEN TRUE
    ELSE MatchesFrom(errStr, patterns, i + 1)

\* variant: an empty pattern list retries nothing
isRetryableEmptyMeansNone(err, policy) ==
    IF policy.isNil THEN TRUE
    ELSE MatchesFrom(err.msg, policy.RetryableErrors, 1)

isRetryable(err, policy) ==
    IF policy.isNil \/ Len(policy.RetryableErrors) = 0 THEN TRUE
    ELSE MatchesFrom(err.msg, policy.RetryableErrors, 1)

\* variant: any value printed "true" counts, whatever its type
approvedAnyType(tc) ==
    IF tc.isNil THEN FALSE
    ELSE IF "approved" \in DOMAIN tc.Metadata
         THEN tc.Metadata["approved"].val = "true"
         ELSE FALSE

\* approved(tc): tc.Metadata["approved"].(bool)
approved(tc) ==
    IF tc.isNil THEN FALSE
    ELSE IF "approved" \in DOMAIN tc.Metadata /\ tc.Metadata["approved"].type = "bool"
         THEN tc.Metadata["approved"].val = "true"
         ELSE FALSE

\* ValidateInput: the names collected from schema["required"]
RECURSIVE StringsOf(_, _)
StringsOf(raw, i) ==
    IF i > Len(raw) THEN <<>>
    ELSE IF raw[i].isString THEN <<raw[i].s>> \o StringsOf(raw, i + 1)
    ELSE StringsOf(raw, i + 1)

RequiredOf(schema) ==
    IF schema.required.type = "[]string" THEN [i \in 1..Len(schema.required.elems) |-> schema.required.elems[i].s]
    ELSE IF schema.required.type = "[]any" THEN StringsOf(schema.required.elems, 1)
    ELSE <<>>

\* variant: a field holding nil counts as missing
RECURSIVE FirstMissingOrNil(_, _, _)
FirstMissingOrNil(required, input, i) ==
    IF i > Len(required) THEN NoErr
    ELSE IF required[i] \notin DOMAIN input THEN ValidationError(required[i])
    ELSE IF input[required[i]] = "nil" THEN ValidationError(required[i])
    ELSE FirstMissingOrNil(required, input, i + 1)

\* ValidateInput: the loop over required, from index i on
RECURSIVE FirstMissing(_, _, _)
FirstMissing(required, input, i) ==
    IF i > Len(required) THEN NoErr
    ELSE IF required[i] \notin DOMAIN input THEN ValidationError(required[i])
    ELSE FirstMissing(required, input, i + 1)

\* variant: the input is not validated
ValidateInputSkipped(tool, input) == NoErr

ValidateInput(tool, input) ==
    IF tool.schema.isNil THEN NoErr
    ELSE FirstMissing(RequiredOf(tool.schema), input, 1)

\* NewExecutor: the defaults applied to the configuration
NewExecutor(c) ==
    LET mc == IF c.MaxConcurrency <= 0 THEN DefaultMaxConcurrency ELSE c.MaxConcurrency
        dt == IF c.DefaultTimeout <= 0 THEN DefaultTimeoutSeconds ELSE c.DefaultTimeout
    IN  [config |-> [MaxConcurrency |-> mc, DefaultTimeout |-> dt], cap |-> mc]

\* variant: the retry policy is read from any tool
RetryPolicyOfAnyTool(req) == req.Tool.retryPolicy

\* policy resolution of Execute: the tool's settings seen through EnhancedTool
RetryPolicyOf(req) == IF req.Tool.enhanced THEN req.Tool.retryPolicy ELSE NilPolicy

RequiresApprovalOf(req) == IF req.Tool.enhanced THEN req.Tool.requiresApproval ELSE FALSE

\* variant: MaxRetries counts the attempts, not the retries after the first
MaxAttemptsRetriesOnly(req) ==
    IF RetryPolicyOf(req).isNil THEN 1 ELSE RetryPolicyOf(req).MaxRetries

\* variant: one attempt too many (loop condition <=)
MaxAttemptsInclusive(req) ==
    IF RetryPolicyOf(req).isNil THEN 2 ELSE 2 + RetryPolicyOf(req).MaxRetries

MaxAttempts(req) ==
    IF RetryPolicyOf(req).isNil THEN 1 ELSE 1 + RetryPolicyOf(req).MaxRetries

\* variant: the tool's own timeout beats the request's override
ResolveTimeoutToolFirst(req) ==
    LET enh == req.Tool.enhanced
        t0 == executor.config.DefaultTimeout
        t1 == IF req.TimeoutOverride > 0 THEN req.TimeoutOverride ELSE t0
        t2 == IF enh /\ req.Tool.longRunning /\ req.Tool.timeout = 0 /\ req.TimeoutOverride = 0
              THEN 0 ELSE t1
    IN  IF enh /\ req.Tool.timeout > 0 THEN req.Tool.timeout ELSE t2

\* policy resolution of Execute: the local variable timeout
ResolveTimeout(req) ==
    LET enh == req.Tool.enhanced
        t0 == executor.config.DefaultTimeout
        t1 == IF enh /\ req.Tool.timeout > 0 THEN req.Tool.timeout ELSE t0
        t2 == IF enh /\ req.Tool.longRunning /\ req.Tool.timeout = 0 /\ req.TimeoutOverride = 0
              THEN 0 ELSE t1
    IN  IF req.TimeoutOverride > 0 THEN req.TimeoutOverride ELSE t2

\* math.Pow(b, n) for a natural exponent
RECURSIVE Pow(_, _)
Pow(b, n) == IF n = 0 THEN 1 ELSE b * Pow(b, n - 1)

\* time.Duration(x) of the float64 x = p/q, q > 0: truncation toward zero
Truncate(p, q) == IF p >= 0 THEN p \div q ELSE 0 - ((0 - p) \div q)

\* variant: the cap at MaxBackoff is missing
calculateBackoffNoCap(a, policy) ==
    IF policy.isNil THEN 0
    ELSE Truncate(policy.InitialBackoff * Pow(policy.BackoffMultiplier.num, a),
                  Pow(policy.BackoffMultiplier.den, a))

\* calculateBackoff(attempt, policy); the float64 product
\* InitialBackoff * BackoffMultiplier^attempt is the fraction p/q
calculateBackoff(a, policy) ==
    IF policy.isNil THEN 0
    ELSE LET p == policy.InitialBackoff * Pow(policy.BackoffMultiplier.num, a)
             q == Pow(policy.BackoffMultiplier.den, a)
         IN  IF p > policy.MaxBackoff * q THEN policy.MaxBackoff ELSE Truncate(p, q)

\* ExecuteBatch: priority of a request
PriorityOf(req) == IF req.Tool.enhanced THEN req.Tool.priority ELSE 0

\* sort.SliceStable with less(i, j) = items[i].priority > items[j].priority:
\* stable insertion of one item into an already sorted prefix
\* variant: an item overtakes the items of equal priority (unstable sort)
RECURSIVE InsertStableTiesFirst(_, _)
InsertStableTiesFirst(sorted, item) ==
    IF sorted = <<>> THEN <<item>>
    ELSE IF item.priority >= sorted[Len(sorted)].priority
         THEN InsertStableTiesFirst(SubSeq(sorted, 1, Len(sorted) - 1), item) \o <<sorted[Len(sorted)]>>
         ELSE sorted \o <<item>>

RECURSIVE InsertStable(_, _)
InsertStable(sorted, item) ==
    IF sorted = <<>> THEN <<item>>
    ELSE IF item.priority > sorted[Len(sorted)].priority
         THEN InsertStable(SubSeq(sorted, 1, Len(sorted) - 1), item) \o <<sorted[Len(sorted)]>>
         ELSE sorted \o <<item>>

RECURSIVE SortStableFrom(_, _, _)
SortStableFrom(items, sorted, i) ==
    IF i > Len(items) THEN sorted
    ELSE SortStableFrom(items, InsertStable(sorted, items[i]), i + 1)

\* the items slice of ExecuteBatch after sorting
Items ==
    SortStableFrom([i \in 1..batchLen |-> [idx |-> i, priority |-> PriorityOf(requests[i])]], <<>>, 1)

\* ----------------------------------------------------------- input domains
Str(x) == [isString |-> TRUE, s |-> x]
NonStr(x) == [isString |-> FALSE, s |-> x]

NilSchema == [isNil |-> TRUE, required |-> [type |-> "absent", elems |-> <<>>]]
Schema(t, elems) == [isNil |-> FALSE, required |-> [type |-> t, elems |-> elems]]

Schemas ==
    { NilSchema,
      Schema("absent", <<>>),
      Schema("[]string", <<Str("x")>>),
      Schema("[]string", <<Str("y"), Str("x")>>),
      Schema("[]any", <<NonStr("7"), Str("y")>>) }

NoInput == [k \in {} |-> "nil"]
Inputs == { NoInput, [x |-> "nil"], [x |-> "int"], [x |-> "int", y |-> "nil"] }

Meta(t, v) == [isNil |-> FALSE, Metadata |-> [approved |-> [type |-> t, val |-> v]]]
ToolContexts ==
    { [isNil |-> TRUE, Metadata |-> NoInput],
      [isNil |-> FALSE, Metadata |-> NoInput],
      Meta("bool", "true"), Meta("bool", "false"), Meta("string", "true") }

ErrMsgs == { <<"a">>, <<"b", "a">>, <<"b">> }
PatternLists == { <<>>, << <<"a">> >>, << <<"c">>, <<"a", "b">> >>, << <<"b", "a">> >>, << EmptyString >> }

Policy(n, pats) ==
    [isNil |-> FALSE, MaxRetries |-> n, RetryableErrors |-> pats,
     InitialBackoff |-> 0, MaxBackoff |-> 0, BackoffMultiplier |-> Ratio(1, 1)]

\* a policy with the given backoff fields
WithBackoff(policy, initial, max, mult) ==
    [policy EXCEPT !.InitialBackoff = initial, !.MaxBackoff = max, !.BackoffMultiplier = mult]
Policies == {NilPolicy} \cup { Policy(n, pats) : n \in 0..MaxRetriesBound, pats \in PatternLists }

\* a tool: its schema, its EnhancedTool settings (read only when it implements
\* EnhancedTool) and errs, the messages of the errors its Execute may return
MkTool(name, enhanced, schema, appr, policy, prio, errs) ==
    [name |-> name, enhanced |-> enhanced, schema |-> schema,
     requiresApproval |-> appr, retryPolicy |-> policy, priority |-> prio, errs |-> errs,
     timeout |-> 0, longRunning |-> FALSE]

\* a tool whose Timeout() and IsLongRunning() return the given values
WithTimeout(tool, d, lr) == [tool EXCEPT !.timeout = d, !.longRunning = lr]

MkRequest(tool, input, tc) ==
    [Tool |-> tool, Input |-> input, Context |-> tc, TimeoutOverride |-> 0]

\* a request with ExecuteRequest.TimeoutOverride set
WithTimeoutOverride(req, d) == [req EXCEPT !.TimeoutOverride = d]

\* requests of the single-call specification: every schema with every input,
\* approval setting and tool context; and every retry policy with every error
SingleRequests ==
    { MkRequest(MkTool("t", enh, sch, appr, NilPolicy, 0, {<<"b">>}), inp, tc) :
        enh \in BOOLEAN, sch \in Schemas, appr \in BOOLEAN,
        inp \in Inputs, tc \in ToolContexts }
    \cup
    { MkRequest(MkTool("t", enh, NilSchema, appr, pol, 0, ErrMsgs), NoInput, Meta("bool", "true")) :
        enh \in BOOLEAN, appr \in BOOLEAN, pol \in Policies }

\* requests of the concurrency specification: a basic Tool (its approval and
\* retry fields are not visible through EnhancedTool) whose input lacks the
\* required field, an EnhancedTool whose approval is denied, and an approved
\* EnhancedTool with one retry that may succeed or fail either way
ConcurrentRequests ==
    { MkRequest(MkTool("plain", FALSE, Schema("[]string", <<Str("x")>>), TRUE, Policy(1, <<>>), 3, {<<"b">>}),
                NoInput, NilToolContext),
      MkRequest(MkTool("gated", TRUE, NilSchema, TRUE, NilPolicy, 1, {}),
                NoInput, Meta("bool", "false")),
      MkRequest(MkTool("retry", TRUE, Schema("[]string", <<Str("x")>>), TRUE, Policy(1, << <<"a">> >>), 2, {<<"a">>, <<"b">>}),
                [x |-> "int"], Meta("bool", "true")) }

\* the caller context of call c: the batch shares context 0, a direct call has its own
CtxOf(c) == IF c <= batchLen THEN 0 ELSE c

Done(k) == ctx[k] # "live"

\* the Executor of either source, NewExecutor, the requests, and the caller
\* contexts as they are when the calls are made
InitBuild(n, maxConc, defTimeouts, reqs, ctxs, impls) ==
    /\ impl \in impls
    /\ cfg \in { [MaxConcurrency |-> m, DefaultTimeout |-> d] : m \in maxConc, d \in defTimeouts }
    /\ executor = NewExecutor(cfg)
    /\ semaphore = 0
    /\ numCalls = n
    /\ batchLen \in 0..n
    /\ requests \in [1..n -> reqs]
    /\ ctx \in ctxs
    /\ pc = [c \in 1..n |-> "idle"]
    /\ deferred = [c \in 1..n |-> FALSE]
    /\ attempt = [c \in 1..n |-> 0]
    /\ attempts = [c \in 1..n |-> 0]
    /\ output = [c \in 1..n |-> NilOutput]
    /\ execErr = [c \in 1..n |-> NoErr]
    /\ result = [c \in 1..n |-> NoResult]
    /\ history = [c \in 1..n |-> <<>>]
    /\ admitted = [c \in 1..n |-> FALSE]
    /\ batchPc = "call"
    /\ spawned = 0
    /\ wg = 0
    /\ results = <<>>
    /\ batchOut = <<>>
    /\ now = 0
    /\ start = [c \in 1..n |-> 0]
    /\ timeout = [c \in 1..n |-> 0]
    /\ execCtx = [c \in 1..n |-> NoContext]
    /\ delay = [c \in 1..n |-> 0]
    /\ timer = [c \in 1..n |-> 0]
    /\ times = [c \in 1..n |-> NoTimes]

\* the Executor with the approval gate and the priority order
InitExecutorFrom(n, maxConc, defTimeouts, reqs, ctxs) ==
    InitBuild(n, maxConc, defTimeouts, reqs, ctxs, {"canonical"})

\* the caller contexts are live when the calls are made
InitExecutor(n, maxConc, defTimeouts, reqs) ==
    InitExecutorFrom(n, maxConc, defTimeouts, reqs, {[k \in 0..n |-> "live"]})

\* a Go map without entries
EmptyMap == [x \in {} |-> 0]

\* NewRegistry: both maps empty, the lock mu free (w: the caller inside Lock,
\* readers: the callers holding a read lock); latest[n] observes the kind of
\* the most recent registration under n
NewRegistry ==
    [factories |-> EmptyMap, instances |-> EmptyMap, mu |-> [w |-> 0, readers |-> {}],
     latest |-> EmptyMap]

NoUniverse == [names |-> {}, lookups |-> {}, tools |-> {}, factories |-> {}, configs |-> {}]

\* no call of NewToolContext
NoToolContextCall == [pc |-> "none", opts |-> <<>>, next |-> 0, tc |-> NilToolContext]

\* the executor alone: the registry is empty and unused
InitWith(n, maxConc, defTimeouts, reqs) ==
    /\ InitExecutor(n, maxConc, defTimeouts, reqs)
    /\ registry = NewRegistry
    /\ callers = EmptyMap
    /\ tcBuild = NoToolContextCall
    /\ universe = NoUniverse

Init == InitWith(NumCalls, {1, 2}, {0}, ConcurrentRequests)

InitSingle == InitWith(1, {0, 1}, {0}, SingleRequests)

\* ------------------------------------------------------------------ Execute
\* variant: the send never blocks (unbounded channel)
SlotAlwaysFree == TRUE

\* select case e.semaphore <- struct{}{}: the send can proceed
SlotFree == semaphore < executor.cap

\* variant: the slot is never given back
NoRelease(c) == semaphore

\* defer func() { <-e.semaphore }(): runs on every return after it was registered
DeferredRelease(c) == IF deferred[c] THEN semaphore - 1 ELSE semaphore

\* variant: the release is deferred before the select, so every return takes a token
ReturnAlwaysReleasing(c, res) ==
    /\ result' = [result EXCEPT ![c] = res]
    /\ semaphore' = semaphore - 1
    /\ deferred' = [deferred EXCEPT ![c] = FALSE]
    /\ pc' = [pc EXCEPT ![c] = "returned"]

\* a return statement of Execute: the result is built, then the deferred
\* function runs
Return(c, res) ==
    /\ result' = [result EXCEPT ![c] = res]
    /\ semaphore' = DeferredRelease(c)
    /\ deferred' = [deferred EXCEPT ![c] = FALSE]
    /\ pc' = [pc EXCEPT ![c] = "returned"]

\* variant: the early returns leave Error unset
EarlyResultNoError(c, err) ==
    [returned |-> TRUE, Success |-> FALSE, Output |-> NilOutput, Error |-> NoErr,
     Attempts |-> 0, req |-> c]

\* the results built by the returns before the execution loop
EarlyResult(c, err) ==
    [returned |-> TRUE, Success |-> FALSE, Output |-> NilOutput, Error |-> err,
     Attempts |-> 0, req |-> c]

\* variant: the loop index is reported instead of attempts
FinalResultZeroBased(c, out, err, n) ==
    [returned |-> TRUE, Success |-> (err = NoErr), Output |-> out,
     Error |-> err, Attempts |-> n - 1, req |-> c]

\* the result built at label Finish from the locals output, execErr, attempts
FinalResult(c, out, err, n) ==
    [returned |-> TRUE, Success |-> (err = NoErr), Output |-> out,
     Error |-> err, Attempts |-> n, req |-> c]

\* the time fields of the results returned from the slot wait and from
\* validation: StartedAt and FinishedAt are set, Duration is not
EarlyTimes(c) == [StartedAt |-> start[c], FinishedAt |-> now, Duration |-> 0]

\* the time fields of the approval denial and of Finish:
\* end := time.Now(); Duration: end.Sub(start)
FinishTimes(c) == [StartedAt |-> start[c], FinishedAt |-> now, Duration |-> now - start[c]]

\* variant: every attempt gets a context derived with context.WithTimeout
AttemptContextAlwaysDerived(c, t) ==
    [parent |-> CtxOf(c), hasDeadline |-> TRUE, deadline |-> now + t]

\* execCtx := ctx; if timeout > 0 { execCtx, cancel = context.WithTimeout(ctx, timeout) }
AttemptContext(c, t) ==
    IF t > 0 THEN [parent |-> CtxOf(c), hasDeadline |-> TRUE, deadline |-> now + t]
    ELSE [parent |-> CtxOf(c), hasDeadline |-> FALSE, deadline |-> 0]

\* a caller outside ExecuteBatch calls Execute; start := time.Now()
Call(c) ==
    /\ c > batchLen
    /\ pc[c] = "idle"
    /\ pc' = [pc EXCEPT ![c] = "acquire"]
    /\ start' = [start EXCEPT ![c] = now]
    /\ UNCHANGED <<cfg, executor, semaphore, numCalls, batchLen, requests, ctx, deferred,
                   attempt, attempts, output, execErr, result, history, admitted,
                   batchPc, spawned, wg, results, batchOut>>
    /\ UNCHANGED <<now, timeout, execCtx, delay, timer, times>>
    /\ UNCHANGED libVars

\* 1. Acquire concurrency slot: the send case of the select
Acquire(c) ==
    /\ pc[c] = "acquire"
    /\ SlotFree
    /\ semaphore' = semaphore + 1
    /\ deferred' = [deferred EXCEPT ![c] = TRUE]
    /\ admitted' = [admitted EXCEPT ![c] = TRUE]
    /\ pc' = [pc EXCEPT ![c] = "validate"]
    /\ UNCHANGED <<cfg, executor, numCalls, batchLen, requests, ctx,
                   attempt, attempts, output, execErr, result, history,
                   batchPc, spawned, wg, results, batchOut>>
    /\ UNCHANGED timeVars
    /\ UNCHANGED libVars

\* 1. Acquire concurrency slot: the ctx.Done() case of the select
AcquireCancelled(c) ==
    /\ pc[c] = "acquire"
    /\ Done(CtxOf(c))
    /\ Return(c, EarlyResult(c, CtxErr(ctx[CtxOf(c)])))
    /\ times' = [times EXCEPT ![c] = EarlyTimes(c)]
    /\ UNCHANGED <<cfg, executor, numCalls, batchLen, requests, ctx,
                   attempt, attempts, output, execErr, history, admitted,
                   batchPc, spawned, wg, results, batchOut>>
    /\ UNCHANGED <<now, start, timeout, execCtx, delay, timer>>
    /\ UNCHANGED libVars

\* 2. Input Validation
Validate(c) ==
    /\ pc[c] = "validate"
    /\ LET err == ValidateInput(requests[c].Tool, requests[c].Input)
       IN  IF err # NoErr
           THEN /\ Return(c, EarlyResult(c, err))
                /\ times' = [times EXCEPT ![c] = EarlyTimes(c)]
           ELSE /\ pc' = [pc EXCEPT ![c] = "approval"]
                /\ UNCHANGED <<semaphore, deferred, result, times>>
    /\ UNCHANGED <<cfg, executor, numCalls, batchLen, requests, ctx,
                   attempt, attempts, output, execErr, history, admitted,
                   batchPc, spawned, wg, results, batchOut>>
    /\ UNCHANGED <<now, start, timeout, execCtx, delay, timer>>
    /\ UNCHANGED libVars

\* for attempt := 0; attempt < maxAttempts; attempt++: the loop condition
\* evaluated with attempt = a (locals output = out, execErr = err), then either
\* the loop body up to the call of req.Tool.Execute (with the attempt's context
\* derived from the resolved timeout), or Finish
LoopFrom(c, a, out, err) ==
    /\ attempt' = [attempt EXCEPT ![c] = a]
    /\ output' = [output EXCEPT ![c] = out]
    /\ execErr' = [execErr EXCEPT ![c] = err]
    /\ IF a < MaxAttempts(requests[c])
       THEN /\ attempts' = [attempts EXCEPT ![c] = a + 1]
            /\ execCtx' = [execCtx EXCEPT ![c] = AttemptContext(c, timeout'[c])]
            /\ pc' = [pc EXCEPT ![c] = "executing"]
            /\ UNCHANGED <<semaphore, deferred, result, times>>
       ELSE /\ UNCHANGED <<attempts, execCtx>>
            /\ Return(c, FinalResult(c, out, err, attempts[c]))
            /\ times' = [times EXCEPT ![c] = FinishTimes(c)]

\* 3. policy resolution and the approval check; entry of the execution loop
CheckApproval(c) ==
    /\ pc[c] = "approval"
    /\ timeout' = [timeout EXCEPT ![c] = ResolveTimeout(requests[c])]
    /\ IF RequiresApprovalOf(requests[c]) /\ ~approved(requests[c].Context)
       THEN /\ Return(c, EarlyResult(c, ApprovalError(requests[c].Tool.name)))
            /\ times' = [times EXCEPT ![c] = FinishTimes(c)]
            /\ UNCHANGED <<attempt, attempts, output, execErr, execCtx>>
       ELSE LoopFrom(c, 0, output[c], execErr[c])
    /\ UNCHANGED <<cfg, executor, numCalls, batchLen, requests, ctx,
                   history, admitted, batchPc, spawned, wg, results, batchOut>>
    /\ UNCHANGED <<now, start, delay, timer>>
    /\ UNCHANGED libVars

\* what one invocation of the tool may return: an output, or one of its errors
ToolOutcomes(c) ==
    {[out |-> Len(history[c]) + 1, err |-> NoErr]}
        \cup {[out |-> NilOutput, err |-> ToolErr(m)] : m \in requests[c].Tool.errs}

\* variant: the test of isRetryable is inverted
AfterAttemptStopOnRetryable(c, err) ==
    IF err = NoErr THEN "finish"
    ELSE IF attempt[c] < MaxAttempts(requests[c]) - 1
         THEN IF isRetryable(err, RetryPolicyOf(requests[c])) THEN "finish" ELSE "backoff"
         ELSE "next"

\* variant: the break on a non-retryable error is missing
AfterAttemptNoBreak(c, err) ==
    IF err = NoErr THEN "finish"
    ELSE IF attempt[c] < MaxAttempts(requests[c]) - 1 THEN "backoff"
    ELSE "next"

\* variant: the break on success is missing
AfterAttemptNoSuccessBreak(c, err) ==
    IF attempt[c] < MaxAttempts(requests[c]) - 1
    THEN IF err # NoErr /\ ~isRetryable(err, RetryPolicyOf(requests[c])) THEN "finish" ELSE "backoff"
    ELSE "next"

\* where the loop body goes after an attempt returned err
AfterAttempt(c, err) ==
    IF err = NoErr THEN "finish"
    ELSE IF attempt[c] < MaxAttempts(requests[c]) - 1
         THEN IF ~isRetryable(err, RetryPolicyOf(requests[c])) THEN "finish" ELSE "backoff"
         ELSE "next"

\* req.Tool.Execute returns; the rest of the loop body: break and Finish, the
\* backoff select, or the next evaluation of the loop condition
ToolReturns(c) ==
    /\ pc[c] = "executing"
    /\ UNCHANGED <<now, start, timeout>>
    /\ \E o \in ToolOutcomes(c) :
         /\ history' = [history EXCEPT ![c] = Append(@, o)]
         /\ LET to == AfterAttempt(c, o.err)
            IN  CASE to = "finish" ->
                       /\ output' = [output EXCEPT ![c] = o.out]
                       /\ execErr' = [execErr EXCEPT ![c] = o.err]
                       /\ Return(c, FinalResult(c, o.out, o.err, attempts[c]))
                       /\ times' = [times EXCEPT ![c] = FinishTimes(c)]
                       /\ UNCHANGED <<attempt, attempts, execCtx, delay, timer>>
                  [] to = "backoff" ->
                       /\ output' = [output EXCEPT ![c] = o.out]
                       /\ execErr' = [execErr EXCEPT ![c] = o.err]
                       /\ delay' = [delay EXCEPT ![c] = calculateBackoff(attempt[c], RetryPolicyOf(requests[c]))]
                       /\ timer' = [timer EXCEPT ![c] = now + delay'[c]]
                       /\ pc' = [pc EXCEPT ![c] = "backoff"]
                       /\ UNCHANGED <<attempt, attempts, semaphore, deferred, result, execCtx, times>>
                  [] to = "next" ->
                       /\ LoopFrom(c, attempt[c] + 1, o.out, o.err)
                       /\ UNCHANGED <<delay, timer>>
    /\ UNCHANGED <<cfg, executor, numCalls, batchLen, requests, ctx,
                   admitted, batchPc, spawned, wg, results, batchOut>>
    /\ UNCHANGED libVars

\* case <-time.After(delay): continue
BackoffElapsed(c) ==
    /\ pc[c] = "backoff"
    /\ now >= timer[c]
    /\ UNCHANGED <<now, start, timeout, delay, timer>>
    /\ LoopFrom(c, attempt[c] + 1, output[c], execErr[c])
    /\ UNCHANGED <<cfg, executor, numCalls, batchLen, requests, ctx,
                   history, admitted, batchPc, spawned, wg, results, batchOut>>
    /\ UNCHANGED libVars

\* variant: the assignment execErr = ctx.Err() is missing
BackoffErrKeepsLast(c) == execErr[c]

\* execErr = ctx.Err(): the error Finish reports after a cancelled backoff
BackoffErr(c) == CtxErr(ctx[CtxOf(c)])

\* case <-ctx.Done(): execErr = ctx.Err(); goto Finish
BackoffCancelled(c) ==
    /\ pc[c] = "backoff"
    /\ Done(CtxOf(c))
    /\ execErr' = [execErr EXCEPT ![c] = BackoffErr(c)]
    /\ Return(c, FinalResult(c, output[c], BackoffErr(c), attempts[c]))
    /\ times' = [times EXCEPT ![c] = FinishTimes(c)]
    /\ UNCHANGED <<cfg, executor, numCalls, batchLen, requests, ctx,
                   attempt, attempts, output, history, admitted,
                   batchPc, spawned, wg, results, batchOut>>
    /\ UNCHANGED <<now, start, timeout, execCtx, delay, timer>>
    /\ UNCHANGED libVars

\* context k is cancelled (by the caller or by its deadline) while a call that was
\* given this context has not returned
Cancel(k) ==
    /\ \E c \in Calls : CtxOf(c) = k /\ pc[c] \notin {"returned", "done"}
    /\ ctx[k] = "live"
    /\ ctx' = [ctx EXCEPT ![k] = "canceled"]
    /\ UNCHANGED <<cfg, executor, semaphore, numCalls, batchLen, requests, pc, deferred,
                   attempt, attempts, output, execErr, result, history, admitted,
                   batchPc, spawned, wg, results, batchOut>>
    /\ UNCHANGED timeVars
    /\ UNCHANGED libVars

\* time passes while a call is inside Execute
Tick ==
    /\ now < MaxTime
    /\ \E c \in Calls : pc[c] \in {"acquire", "validate", "approval", "executing", "backoff"}
    /\ now' = now + 1
    /\ UNCHANGED execVars
    /\ UNCHANGED <<start, timeout, execCtx, delay, timer, times>>
    /\ UNCHANGED libVars

\* ------------------------------------------------------------- ExecuteBatch
\* variant: the slot is the item's position in the sorted slice
ResultSlotByPosition(item) == CHOOSE p \in 1..Len(Items) : Items[p].idx = item.idx

\* results[item.idx] = ...: the slot a goroutine writes
ResultSlot(item) == item.idx

\* ExecuteBatch up to the dispatch loop
BatchStart ==
    /\ batchPc = "call"
    /\ IF batchLen = 0
       THEN /\ batchOut' = <<>>
            /\ batchPc' = "done"
            /\ UNCHANGED <<results, wg>>
       ELSE /\ results' = [i \in 1..batchLen |-> NoResult]
            /\ wg' = batchLen
            /\ batchPc' = "dispatch"
            /\ UNCHANGED batchOut
    /\ UNCHANGED <<cfg, executor, semaphore, numCalls, batchLen, requests, ctx, pc, deferred,
                   attempt, attempts, output, execErr, result, history, admitted, spawned>>
    /\ UNCHANGED timeVars
    /\ UNCHANGED libVars

\* one iteration of for _, item := range items: the go statement; the
\* goroutine calls Execute (start := time.Now())
Dispatch ==
    /\ batchPc = "dispatch"
    /\ spawned < batchLen
    /\ pc' = [pc EXCEPT ![Items[spawned + 1].idx] = "acquire"]
    /\ start' = [start EXCEPT ![Items[spawned + 1].idx] = now]
    /\ UNCHANGED <<now, timeout, execCtx, delay, timer, times>>
    /\ spawned' = spawned + 1
    /\ batchPc' = IF spawned + 1 = batchLen THEN "wait" ELSE "dispatch"
    /\ UNCHANGED <<cfg, executor, semaphore, numCalls, batchLen, requests, ctx, deferred,
                   attempt, attempts, output, execErr, result, history, admitted,
                   wg, results, batchOut>>
    /\ UNCHANGED libVars

\* the goroutine of request c after Execute returned: the store, then wg.Done()
Store(c) ==
    /\ c <= batchLen
    /\ pc[c] = "returned"
    /\ results' = [results EXCEPT ![ResultSlot([idx |-> c, priority |-> PriorityOf(requests[c])])] = result[c]]
    /\ wg' = wg - 1
    /\ pc' = [pc EXCEPT ![c] = "done"]
    /\ UNCHANGED <<cfg, executor, semaphore, numCalls, batchLen, requests, ctx, deferred,
                   attempt, attempts, output, execErr, result, history, admitted,
                   batchPc, spawned, batchOut>>
    /\ UNCHANGED timeVars
    /\ UNCHANGED libVars

\* variant: ExecuteBatch does not wait for its goroutines
WaitSkipped == TRUE

\* wg.Wait() can return: every goroutine has called wg.Done()
WaitDone == wg = 0

\* wg.Wait() returns; return results
BatchReturn ==
    /\ batchPc = "wait"
    /\ WaitDone
    /\ batchOut' = results
    /\ batchPc' = "done"
    /\ UNCHANGED <<cfg, executor, semaphore, numCalls, batchLen, requests, ctx, pc, deferred,
                   attempt, attempts, output, execErr, result, history, admitted,
                   spawned, wg, results>>
    /\ UNCHANGED timeVars
    /\ UNCHANGED libVars

Next ==
    \/ BatchStart
    \/ Dispatch
    \/ BatchReturn
    \/ \E c \in Calls : Call(c)
    \/ \E c \in Calls : Acquire(c)
    \/ \E c \in Calls : AcquireCancelled(c)
    \/ \E c \in Calls : Validate(c)
    \/ \E c \in Calls : CheckApproval(c)
    \/ \E c \in Calls : ToolReturns(c)
    \/ \E c \in Calls : BackoffElapsed(c)
    \/ \E c \in Calls : BackoffCancelled(c)
    \/ \E c \in Calls : Store(c)
    \/ \E k \in 0..numCalls : Cancel(k)

\* the executor with the clock at rest
Spec == Init /\ [][Next]_vars

\* one batch of more requests than slots, no direct calls
InitBatch ==
    /\ InitWith(NumCalls, {1}, {0}, ConcurrentRequests)
    /\ batchLen = NumCalls

\* the steps of ExecuteBatch and of its goroutines
Progress ==
    \/ BatchStart
    \/ Dispatch
    \/ BatchReturn
    \/ \E c \in Calls : Acquire(c)
    \/ \E c \in Calls : AcquireCancelled(c)
    \/ \E c \in Calls : Validate(c)
    \/ \E c \in Calls : CheckApproval(c)
    \/ \E c \in Calls : ToolReturns(c)
    \/ \E c \in Calls : BackoffElapsed(c)
    \/ \E c \in Calls : BackoffCancelled(c)
    \/ \E c \in Calls : Store(c)

NextBatch ==
    \/ Progress
    \/ \E k \in 0..numCalls : Cancel(k)

\* the batch under a scheduler that keeps running runnable goroutines, with
\* tools and timers that return; the caller may cancel at any time or never
SpecBatch == InitBatch /\ [][NextBatch]_vars /\ WF_vars(Progress)

SpecSingle == InitSingle /\ [][Next]_vars

\* ------------------------------------------------------ time and backoff
\* durations and multipliers of the retry policies of the timed specification:
\* InitialBackoff above, equal to and below MaxBackoff, multipliers below,
\* equal to and above 1, whole and fractional
Durations == 0..3
Multipliers == { Ratio(1, 2), Ratio(1, 1), Ratio(3, 2), Ratio(2, 1) }

BackoffPolicies ==
    { WithBackoff(Policy(MaxRetriesBound, <<>>), i, m, r) :
        i \in Durations, m \in Durations, r \in Multipliers }

\* requests of the timed specification: an approved EnhancedTool with every
\* backoff policy, and the requests that are rejected by validation and by the
\* approval check
TimedRequests ==
    { MkRequest(MkTool("t", TRUE, Schema("[]string", <<Str("x")>>), TRUE, pol, 0, {<<"a">>}),
                [x |-> "int"], Meta("bool", "true")) : pol \in BackoffPolicies }
    \cup
    { MkRequest(MkTool("t", TRUE, Schema("[]string", <<Str("x")>>), TRUE, NilPolicy, 0, {<<"a">>}),
                inp, Meta("bool", "false")) : inp \in {NoInput, [x |-> "int"]} }

InitTimed == InitWith(1, {1}, {0}, TimedRequests)

NextTimed ==
    \/ Next
    \/ Tick

\* the executor with time passing
SpecTimed == InitTimed /\ [][NextTimed]_vars

\* ------------------------------------------------------- timeout resolution
\* requests of the policy specification: basic and enhanced tools with every
\* combination of Timeout() (negative, unset, set), IsLongRunning(), approval
\* requirement, retry policy and priority, every TimeoutOverride (negative,
\* unset, set), with and without a tool context that carries the approval
PolicyRequests ==
    { WithTimeoutOverride(
          MkRequest(WithTimeout(MkTool("t", enh, NilSchema, appr, pol, prio, {<<"a">>}), t, lr),
                    NoInput, tc), o) :
        enh \in BOOLEAN, appr \in BOOLEAN, lr \in BOOLEAN,
        pol \in {NilPolicy, Policy(1, <<>>)}, prio \in {0, 5},
        t \in {0 - 1, 0, 2}, o \in {0 - 1, 0, 1},
        tc \in {NilToolContext, Meta("bool", "true")} }

\* configurations with DefaultTimeout negative, unset and set
InitPolicy == InitWith(1, {1}, {0 - 1, 0, 3}, PolicyRequests)

SpecPolicy == InitPolicy /\ [][Next]_vars

\* ------------------------------------------------- the narrower Executor
\* the second Execute of the source: no approval gate, no long-running
\* handling. The positions are those of the first; "approval" is the entry of
\* 3. Determine config.

\* variant: TimeoutOverride is not read
NarrowResolveTimeoutNoOverride(req) ==
    IF req.Tool.enhanced /\ req.Tool.timeout > 0 THEN req.Tool.timeout
    ELSE executor.config.DefaultTimeout

\* the local variable timeout: DefaultTimeout, the tool's Timeout() if
\* positive, the request's TimeoutOverride if positive
NarrowResolveTimeout(req) ==
    LET t0 == executor.config.DefaultTimeout
        t1 == IF req.Tool.enhanced /\ req.Tool.timeout > 0 THEN req.Tool.timeout ELSE t0
    IN  IF req.TimeoutOverride > 0 THEN req.TimeoutOverride ELSE t1

\* retryPolicy = et.RetryPolicy(), nil for a tool that is not an EnhancedTool
NarrowRetryPolicyOf(req) == IF req.Tool.enhanced THEN req.Tool.retryPolicy ELSE NilPolicy

\* maxAttempts := 1; if retryPolicy != nil { maxAttempts += retryPolicy.MaxRetries }
NarrowMaxAttempts(req) ==
    IF NarrowRetryPolicyOf(req).isNil THEN 1 ELSE 1 + NarrowRetryPolicyOf(req).MaxRetries

\* execCtx, cancel := context.WithTimeout(ctx, timeout)
NarrowAttemptContext(c, t) == [parent |-> CtxOf(c), hasDeadline |-> TRUE, deadline |-> now + t]

\* 1. Acquire concurrency slot: the send case of the select
NarrowAcquire(c) ==
    /\ pc[c] = "acquire"
    /\ SlotFree
    /\ semaphore' = semaphore + 1
    /\ deferred' = [deferred EXCEPT ![c] = TRUE]
    /\ admitted' = [admitted EXCEPT ![c] = TRUE]
    /\ pc' = [pc EXCEPT ![c] = "validate"]
    /\ UNCHANGED <<cfg, executor, numCalls, batchLen, requests, ctx,
                   attempt, attempts, output, execErr, result, history,
                   batchPc, spawned, wg, results, batchOut>>
    /\ UNCHANGED timeVars
    /\ UNCHANGED libVars

\* 1. Acquire concurrency slot: the ctx.Done() case of the select
NarrowAcquireCancelled(c) ==
    /\ pc[c] = "acquire"
    /\ Done(CtxOf(c))
    /\ Return(c, EarlyResult(c, CtxErr(ctx[CtxOf(c)])))
    /\ times' = [times EXCEPT ![c] = EarlyTimes(c)]
    /\ UNCHANGED <<cfg, executor, numCalls, batchLen, requests, ctx,
                   attempt, attempts, output, execErr, history, admitted,
                   batchPc, spawned, wg, results, batchOut>>
    /\ UNCHANGED <<now, start, timeout, execCtx, delay, timer>>
    /\ UNCHANGED libVars

\* 2. Input Validation
NarrowValidate(c) ==
    /\ pc[c] = "validate"
    /\ LET err == ValidateInput(requests[c].Tool, requests[c].Input)
       IN  IF err # NoErr
           THEN /\ Return(c, EarlyResult(c, err))
                /\ times' = [times EXCEPT ![c] = EarlyTimes(c)]
           ELSE /\ pc' = [pc EXCEPT ![c] = "approval"]
                /\ UNCHANGED <<semaphore, deferred, result, times>>
    /\ UNCHANGED <<cfg, executor, numCalls, batchLen, requests, ctx,
                   attempt, attempts, output, execErr, history, admitted,
                   batchPc, spawned, wg, results, batchOut>>
    /\ UNCHANGED <<now, start, timeout, execCtx, delay, timer>>
    /\ UNCHANGED libVars

\* the loop condition evaluated with attempt = a, then the loop body up to the
\* call of req.Tool.Execute, or Finish
NarrowLoopFrom(c, a, out, err) ==
    /\ attempt' = [attempt EXCEPT ![c] = a]
    /\ output' = [output EXCEPT ![c] = out]
    /\ execErr' = [execErr EXCEPT ![c] = err]
    /\ IF a < NarrowMaxAttempts(requests[c])
       THEN /\ attempts' = [attempts EXCEPT ![c] = a + 1]
            /\ execCtx' = [execCtx EXCEPT ![c] = NarrowAttemptContext(c, timeout'[c])]
            /\ pc' = [pc EXCEPT ![c] = "executing"]
            /\ UNCHANGED <<semaphore, deferred, result, times>>
       ELSE /\ UNCHANGED <<attempts, execCtx>>
            /\ Return(c, FinalResult(c, out, err, attempts[c]))
            /\ times' = [times EXCEPT ![c] = FinishTimes(c)]

\* 3. Determine config (Timeout, Retry); entry of the execution loop
NarrowConfigure(c) ==
    /\ pc[c] = "approval"
    /\ timeout' = [timeout EXCEPT ![c] = NarrowResolveTimeout(requests[c])]
    /\ NarrowLoopFrom(c, 0, output[c], execErr[c])
    /\ UNCHANGED <<cfg, executor, numCalls, batchLen, requests, ctx,
                   history, admitted, batchPc, spawned, wg, results, batchOut>>
    /\ UNCHANGED <<now, start, delay, timer>>
    /\ UNCHANGED libVars

\* where the loop body goes after an attempt returned err
NarrowAfterAttempt(c, err) ==
    IF err = NoErr THEN "finish"
    ELSE IF attempt[c] < NarrowMaxAttempts(requests[c]) - 1
         THEN IF ~isRetryable(err, NarrowRetryPolicyOf(requests[c])) THEN "finish" ELSE "backoff"
         ELSE "next"

\* req.Tool.Execute returns; cancel(); the rest of the loop body
NarrowToolReturns(c) ==
    /\ pc[c] = "executing"
    /\ UNCHANGED <<now, start, timeout>>
    /\ \E o \in ToolOutcomes(c) :
         /\ history' = [history EXCEPT ![c] = Append(@, o)]
         /\ LET to == NarrowAfterAttempt(c, o.err)
            IN  CASE to = "finish" ->
                       /\ output' = [output EXCEPT ![c] = o.out]
                       /\ execErr' = [execErr EXCEPT ![c] = o.err]
                       /\ Return(c, FinalResult(c, o.out, o.err, attempts[c]))
                       /\ times' = [times EXCEPT ![c] = FinishTimes(c)]
                       /\ UNCHANGED <<attempt, attempts, execCtx, delay, timer>>
                  [] to = "backoff" ->
                       /\ output' = [output EXCEPT ![c] = o.out]
                       /\ execErr' = [execErr EXCEPT ![c] = o.err]
                       /\ delay' = [delay EXCEPT ![c] =
                                       calculateBackoff(attempt[c], NarrowRetryPolicyOf(requests[c]))]
                       /\ timer' = [timer EXCEPT ![c] = now + delay'[c]]
                       /\ pc' = [pc EXCEPT ![c] = "backoff"]
                       /\ UNCHANGED <<attempt, attempts, semaphore, deferred, result, execCtx, times>>
                  [] to = "next" ->
                       /\ NarrowLoopFrom(c, attempt[c] + 1, o.out, o.err)
                       /\ UNCHANGED <<delay, timer>>
    /\ UNCHANGED <<cfg, executor, numCalls, batchLen, requests, ctx,
                   admitted, batchPc, spawned, wg, results, batchOut>>
    /\ UNCHANGED libVars

\* case <-time.After(delay): continue
NarrowBackoffElapsed(c) ==
    /\ pc[c] = "backoff"
    /\ now >= timer[c]
    /\ UNCHANGED <<now, start, timeout, delay, timer>>
    /\ NarrowLoopFrom(c, attempt[c] + 1, output[c], execErr[c])
    /\ UNCHANGED <<cfg, executor, numCalls, batchLen, requests, ctx,
                   history, admitted, batchPc, spawned, wg, results, batchOut>>
    /\ UNCHANGED libVars

\* case <-ctx.Done(): execErr = ctx.Err(); goto Finish
NarrowBackoffCancelled(c) ==
    /\ pc[c] = "backoff"
    /\ Done(CtxOf(c))
    /\ execErr' = [execErr EXCEPT ![c] = CtxErr(ctx[CtxOf(c)])]
    /\ Return(c, FinalResult(c, output[c], CtxErr(ctx[CtxOf(c)]), attempts[c]))
    /\ times' = [times EXCEPT ![c] = FinishTimes(c)]
    /\ UNCHANGED <<cfg, executor, numCalls, batchLen, requests, ctx,
                   attempt, attempts, output, history, admitted,
                   batchPc, spawned, wg, results, batchOut>>
    /\ UNCHANGED <<now, start, timeout, execCtx, delay, timer>>
    /\ UNCHANGED libVars

\* ExecuteBatch up to the loop: make, the empty batch, wg.Add
NarrowBatchStart ==
    /\ batchPc = "call"
    /\ IF batchLen = 0
       THEN /\ batchOut' = <<>>
            /\ batchPc' = "done"
            /\ UNCHANGED <<results, wg>>
       ELSE /\ results' = [i \in 1..batchLen |-> NoResult]
            /\ wg' = batchLen
            /\ batchPc' = "dispatch"
            /\ UNCHANGED batchOut
    /\ UNCHANGED <<cfg, executor, semaphore, numCalls, batchLen, requests, ctx, pc, deferred,
                   attempt, attempts, output, execErr, result, history, admitted, spawned>>
    /\ UNCHANGED timeVars
    /\ UNCHANGED libVars

\* one iteration of for i, req := range requests: the go statement, in the
\* order of the requests; the goroutine calls Execute
NarrowDispatch ==
    /\ batchPc = "dispatch"
    /\ spawned < batchLen
    /\ pc' = [pc EXCEPT ![spawned + 1] = "acquire"]
    /\ start' = [start EXCEPT ![spawned + 1] = now]
    /\ UNCHANGED <<now, timeout, execCtx, delay, timer, times>>
    /\ spawned' = spawned + 1
    /\ batchPc' = IF spawned + 1 = batchLen THEN "wait" ELSE "dispatch"
    /\ UNCHANGED <<cfg, executor, semaphore, numCalls, batchLen, requests, ctx, deferred,
                   attempt, attempts, output, execErr, result, history, admitted,
                   wg, results, batchOut>>
    /\ UNCHANGED libVars

\* the goroutine of request c: results[i] = e.Execute(ctx, req), then wg.Done()
NarrowStore(c) ==
    /\ c <= batchLen
    /\ pc[c] = "returned"
    /\ results' = [results EXCEPT ![c] = result[c]]
    /\ wg' = wg - 1
    /\ pc' = [pc EXCEPT ![c] = "done"]
    /\ UNCHANGED <<cfg, executor, semaphore, numCalls, batchLen, requests, ctx, deferred,
                   attempt, attempts, output, execErr, result, history, admitted,
                   batchPc, spawned, batchOut>>
    /\ UNCHANGED timeVars
    /\ UNCHANGED libVars

\* wg.Wait() returns; return results
NarrowBatchReturn ==
    /\ batchPc = "wait"
    /\ wg = 0
    /\ batchOut' = results
    /\ batchPc' = "done"
    /\ UNCHANGED <<cfg, executor, semaphore, numCalls, batchLen, requests, ctx, pc, deferred,
                   attempt, attempts, output, execErr, result, history, admitted,
                   spawned, wg, results>>
    /\ UNCHANGED timeVars
    /\ UNCHANGED libVars

\* requests of the two-source specification: enhanced tools that require
\* approval, are long-running, or neither, with Timeout() and TimeoutOverride
\* unset and set, two priorities and one retry; a basic tool, whose settings
\* are not visible; and a request whose input lacks the required field
VariantRequests ==
    { WithTimeoutOverride(
          MkRequest(WithTimeout(MkTool("t", TRUE, NilSchema, gate[1], Policy(1, <<>>),
                                       IF to[1] = 0 THEN 1 ELSE 4, {<<"a">>}), to[1], gate[2]),
                    NoInput, NilToolContext), to[2]) :
        gate \in { <<FALSE, FALSE>>, <<TRUE, FALSE>>, <<FALSE, TRUE>> },
        to \in { <<0, 0>>, <<2, 0>>, <<2, 1>> } }
    \cup
    { MkRequest(WithTimeout(MkTool("t", FALSE, NilSchema, TRUE, Policy(1, <<>>), 5, {<<"a">>}), 2, TRUE),
                NoInput, NilToolContext),
      MkRequest(MkTool("t", TRUE, Schema("[]string", <<Str("x")>>), FALSE, NilPolicy, 2, {<<"a">>}),
                NoInput, NilToolContext) }

\* two calls, in a batch or direct, made to a program built from either source
InitVariants ==
    /\ InitBuild(2, {1}, {0}, VariantRequests, {[k \in 0..2 |-> "live"]}, {"canonical", "narrow"})
    /\ registry = NewRegistry
    /\ callers = EmptyMap
    /\ tcBuild = NoToolContextCall
    /\ universe = NoUniverse

\* the steps of the source the program is built from
NextVariants ==
    \/ impl = "canonical" /\ BatchStart
    \/ impl = "canonical" /\ Dispatch
    \/ impl = "canonical" /\ BatchReturn
    \/ impl = "canonical" /\ \E c \in Calls : Call(c)
    \/ impl = "canonical" /\ \E c \in Calls : Acquire(c)
    \/ impl = "canonical" /\ \E c \in Calls : AcquireCancelled(c)
    \/ impl = "canonical" /\ \E c \in Calls : Validate(c)
    \/ impl = "canonical" /\ \E c \in Calls : CheckApproval(c)
    \/ impl = "canonical" /\ \E c \in Calls : ToolReturns(c)
    \/ impl = "canonical" /\ \E c \in Calls : BackoffElapsed(c)
    \/ impl = "canonical" /\ \E c \in Calls : BackoffCancelled(c)
    \/ impl = "canonical" /\ \E c \in Calls : Store(c)
    \/ impl = "canonical" /\ \E k \in 0..numCalls : Cancel(k)
    \/ impl = "narrow" /\ NarrowBatchStart
    \/ impl = "narrow" /\ NarrowDispatch
    \/ impl = "narrow" /\ NarrowBatchReturn
    \/ impl = "narrow" /\ \E c \in Calls : Call(c)
    \/ impl = "narrow" /\ \E c \in Calls : NarrowAcquire(c)
    \/ impl = "narrow" /\ \E c \in Calls : NarrowAcquireCancelled(c)
    \/ impl = "narrow" /\ \E c \in Calls : NarrowValidate(c)
    \/ impl = "narrow" /\ \E c \in Calls : NarrowConfigure(c)
    \/ impl = "narrow" /\ \E c \in Calls : NarrowToolReturns(c)
    \/ impl = "narrow" /\ \E c \in Calls : NarrowBackoffElapsed(c)
    \/ impl = "narrow" /\ \E c \in Calls : NarrowBackoffCancelled(c)
    \/ impl = "narrow" /\ \E c \in Calls : NarrowStore(c)
    \/ impl = "narrow" /\ \E k \in 0..numCalls : Cancel(k)

SpecVariants == InitVariants /\ [][NextVariants]_vars

\* ------------------------------------------------------------------ Registry
\* tools: a registered instance, the product of a factory, or nil
NilTool == [kind |-> "nil", name |-> EmptyString, id |-> 0, config |-> "none"]
Instance(n, i) == [kind |-> "instance", name |-> n, id |-> i, config |-> "none"]
Product(f, config) == [kind |-> "product", name |-> EmptyString, id |-> f.id, config |-> config]

\* a ToolFactory: fails tells whether it returns an error, calls which
\* operation of the same Registry its body calls before it returns
Factory(i, fails) == [id |-> i, fails |-> fails, calls |-> "none"]
NoFactory == [id |-> 0, fails |-> TRUE, calls |-> "none"]

\* a factory that calls r.RegisterInstance or r.Get and then returns a tool
CallingFactory(i, calls) == [id |-> i, fails |-> FALSE, calls |-> calls]

\* a nil config map
NilConfig == "nil"

\* errors of the registry operations
NilError == [kind |-> "nil", name |-> EmptyString]
ConstructError == [kind |-> "construct", name |-> EmptyString]
ToolNotFoundError(n) == [kind |-> "notfound", name |-> n]

\* factory(config): the (Tool, error) pair a factory returns
Construct(f, config) ==
    IF f.fails THEN [tool |-> NilTool, err |-> ConstructError]
    ELSE [tool |-> Product(f, config), err |-> NilError]

\* m[k] = v and delete(m, k) on a Go map
Put(m, k, v) == [x \in DOMAIN m \cup {k} |-> IF x = k THEN v ELSE m[x]]
Delete(m, k) == [x \in DOMAIN m \ {k} |-> m[x]]

\* strings.ToLower on names, which are sequences of letters
LowerChar(ch) == CASE ch = "E" -> "e" [] ch = "C" -> "c" [] ch = "L" -> "l" [] OTHER -> ch
ToLower(n) == [i \in 1..Len(n) |-> LowerChar(n[i])]

\* the values of a map as a bag (a slice whose order is the map's iteration order)
ValuesOf(m) == [v \in {m[n] : n \in DOMAIN m} |-> Cardinality({n \in DOMAIN m : m[n] = v})]

\* one call of a registry operation and its arguments
Op(op, n, t, f, config) == [op |-> op, name |-> n, tool |-> t, factory |-> f, config |-> config]
NoOp == Op("none", EmptyString, NilTool, NoFactory, NilConfig)

Ops(u) ==
    { Op("RegisterInstance", t.name, t, NoFactory, NilConfig) : t \in u.tools }
    \cup { Op("RegisterFactory", n, NilTool, f, NilConfig) : n \in u.names, f \in u.factories }
    \cup { Op("Remove", n, NilTool, NoFactory, NilConfig) : n \in u.names }
    \cup { Op("Create", n, NilTool, NoFactory, config) : n \in u.lookups, config \in u.configs }
    \cup { Op(o, n, NilTool, NoFactory, NilConfig) : o \in {"Get", "Find"}, n \in u.lookups }
    \cup { Op("List", EmptyString, NilTool, NoFactory, NilConfig) }

\* locals of an operation and the values it returns
\* back: where the operation goes on when the call made by its factory returns
NoLocal == [factory |-> NoFactory, ok |-> FALSE, list |-> EmptyBag, seen |-> {}, back |-> "none"]
NoRet == [tool |-> NilTool, ok |-> FALSE, err |-> NilError, list |-> EmptyBag]
Ret(t, ok, err, list) == [tool |-> t, ok |-> ok, err |-> err, list |-> list]

IdleCaller == [pc |-> "idle", op |-> NoOp, local |-> NoLocal, ret |-> NoRet]

\* names and values of the sequential registry specification: two names that
\* differ only by case, lookups that match no name or match only ignoring case,
\* two instances per name, two working factories and a failing one
SeqNames == { <<"e", "c">>, <<"E", "C">> }

SeqUniverse ==
    [names |-> SeqNames,
     lookups |-> SeqNames \cup { <<"E", "c">>, <<"c", "l">> },
     tools |-> { Instance(n, i) : n \in SeqNames, i \in 1..2 },
     factories |-> { Factory(1, FALSE), Factory(2, FALSE), Factory(3, TRUE) },
     configs |-> { NilConfig, "c1" }]

\* names and values of the concurrent registry specification
ConcUniverse ==
    [names |-> { <<"e", "c">> },
     lookups |-> { <<"e", "c">> },
     tools |-> { Instance(<<"e", "c">>, 1) },
     factories |-> { Factory(1, FALSE) },
     configs |-> { NilConfig }]

InitRegistryWith(n, u) ==
    /\ InitExecutor(0, {1}, {0}, {})
    /\ registry = NewRegistry
    /\ callers = [k \in 1..n |-> IdleCaller]
    /\ tcBuild = NoToolContextCall
    /\ universe = u

InitRegistry == InitRegistryWith(1, SeqUniverse)

InitRegistryConc == InitRegistryWith(NumCallers, ConcUniverse)

\* what a registry step leaves alone
RegFrame == UNCHANGED <<execVars, timeVars, tcBuild, universe, impl>>

\* caller k moves to position pc with locals local
Goto(k, at, loc) == callers' = [callers EXCEPT ![k].pc = at, ![k].local = loc]

\* caller k finished the body of its operation with return value ret
Finish(k, ret) == callers' = [callers EXCEPT ![k].pc = "ret", ![k].local = NoLocal, ![k].ret = ret]

\* a caller calls one of the operations of the registry
RegInvoke(k) ==
    /\ callers[k].pc = "idle"
    /\ \E o \in Ops(universe) :
         callers' = [callers EXCEPT ![k] =
                        [pc |-> IF o.op \in {"RegisterInstance", "RegisterFactory", "Remove"}
                                THEN "lock" ELSE "rlock",
                         op |-> o, local |-> NoLocal, ret |-> NoRet]]
    /\ UNCHANGED registry
    /\ RegFrame

\* r.mu.Lock(), first half: the writer excludes other writers and new readers
Lock(k) ==
    /\ callers[k].pc \in {"lock", "cbLock"}
    /\ registry.mu.w = 0
    /\ registry' = [registry EXCEPT !.mu.w = k]
    /\ Goto(k, IF callers[k].pc = "lock" THEN "locking" ELSE "cbLocking", callers[k].local)
    /\ RegFrame

\* r.mu.Lock(), second half: the writer waits until the readers have left
LockGranted(k) ==
    /\ callers[k].pc \in {"locking", "cbLocking"}
    /\ registry.mu.readers = {}
    /\ Goto(k, CASE callers[k].pc = "cbLocking" -> "cbRegister"
                 [] callers[k].op.op = "RegisterInstance" -> "ri"
                 [] callers[k].op.op = "RegisterFactory" -> "rf"
                 [] OTHER -> "rm", callers[k].local)
    /\ UNCHANGED registry
    /\ RegFrame

\* what was registered last under n since its last removal (observation)
NoneLatest == [kind |-> "none", second |-> FALSE, tool |-> NilTool, factory |-> NoFactory]
Latest(r, n) == IF n \in DOMAIN r.latest THEN r.latest[n] ELSE NoneLatest

\* the observation of a registration of kind under n; second: the name was
\* already registered as that kind
Observe(r, n, kind, t, f) ==
    [r EXCEPT !.latest = Put(@, n,
        [kind |-> kind,
         second |-> IF kind = "instance" THEN n \in DOMAIN r.instances
                    ELSE n \in DOMAIN r.factories,
         tool |-> IF kind = "instance" THEN t ELSE Latest(r, n).tool,
         factory |-> IF kind = "factory" THEN f ELSE Latest(r, n).factory])]

\* variant: the first factory registered under a name stays
StoreFactoryKeepFirst(r, n, f) ==
    IF n \in DOMAIN r.factories THEN r ELSE [r EXCEPT !.factories = Put(@, n, f)]

\* r.factories[name] = factory
StoreFactory(r, n, f) == [r EXCEPT !.factories = Put(@, n, f)]

\* variant: registering an instance drops the factory of that name
StoreInstanceExclusive(r, t) ==
    [r EXCEPT !.instances = Put(@, t.name, t), !.factories = Delete(@, t.name)]

\* r.instances[t.Name()] = t
StoreInstance(r, t) == [r EXCEPT !.instances = Put(@, t.name, t)]

\* r.mu.Unlock()
Unlock(r) == [r EXCEPT !.mu.w = 0]

\* RegisterFactory: r.factories[name] = factory; the deferred Unlock
RegisterFactory(k) ==
    /\ callers[k].pc = "rf"
    /\ registry' = Unlock(StoreFactory(
                       Observe(registry, callers[k].op.name, "factory", NilTool, callers[k].op.factory),
                       callers[k].op.name, callers[k].op.factory))
    /\ Finish(k, NoRet)
    /\ RegFrame

\* RegisterInstance: r.instances[t.Name()] = t; the deferred Unlock
RegisterInstance(k) ==
    /\ callers[k].pc = "ri"
    /\ registry' = Unlock(StoreInstance(
                       Observe(registry, callers[k].op.tool.name, "instance", callers[k].op.tool, NoFactory),
                       callers[k].op.tool))
    /\ Finish(k, NoRet)
    /\ RegFrame

\* Remove: delete(r.factories, name)
RemoveFactory(k) ==
    /\ callers[k].pc = "rm"
    /\ registry' = [registry EXCEPT !.factories = Delete(@, callers[k].op.name)]
    /\ Goto(k, "rm2", NoLocal)
    /\ RegFrame

\* variant: Remove forgets the instance
RemoveInstanceKept(m, n) == m

\* Remove: delete(r.instances, name)
RemoveInstanceOf(m, n) == Delete(m, n)

\* Remove: delete(r.instances, name); the deferred Unlock
RemoveInstance(k) ==
    /\ callers[k].pc = "rm2"
    /\ registry' = [registry EXCEPT
                       !.instances = RemoveInstanceOf(@, callers[k].op.name),
                       !.latest = Delete(@, callers[k].op.name),
                       !.mu.w = 0]
    /\ Finish(k, NoRet)
    /\ RegFrame

\* variant: readers do not wait for a writer
ReadLockAlwaysFree == TRUE

\* r.mu.RLock() can proceed: no writer holds or awaits the lock
ReadLockFree == registry.mu.w = 0

\* r.mu.RLock() of Create, Get, List, of Find after its Get failed, and of
\* the Get a factory calls: a read lock the goroutine already holds does not
\* let it pass a waiting writer
RLock(k) ==
    /\ callers[k].pc \in {"rlock", "findrlock", "cbRLock"}
    /\ ReadLockFree
    /\ registry' = [registry EXCEPT !.mu.readers = @ \cup {k}]
    /\ Goto(k, CASE callers[k].pc = "cbRLock" -> "cbGet"
                 [] callers[k].pc = "findrlock" -> "scan"
                 [] callers[k].op.op = "Create" -> "create"
                 [] callers[k].op.op = "List" -> "list"
                 [] OTHER -> "get", callers[k].local)
    /\ RegFrame

\* r.mu.RUnlock()
RUnlock(k) == registry' = [registry EXCEPT !.mu.readers = @ \ {k}]

\* variant: Create prefers the singleton
CreateResultInstanceFirst(n, config) ==
    IF n \in DOMAIN registry.instances THEN Ret(registry.instances[n], TRUE, NilError, EmptyBag)
    ELSE IF n \in DOMAIN registry.factories
         THEN LET r == Construct(registry.factories[n], config)
              IN  Ret(r.tool, TRUE, r.err, EmptyBag)
         ELSE Ret(NilTool, FALSE, ToolNotFoundError(n), EmptyBag)

\* Create: the factory's result, else the singleton, else ToolNotFoundError
CreateResult(n, config) ==
    IF n \in DOMAIN registry.factories
    THEN LET r == Construct(registry.factories[n], config)
         IN  Ret(r.tool, TRUE, r.err, EmptyBag)
    ELSE IF n \in DOMAIN registry.instances
         THEN Ret(registry.instances[n], TRUE, NilError, EmptyBag)
         ELSE Ret(NilTool, FALSE, ToolNotFoundError(n), EmptyBag)

\* the factories the operation of caller k invokes at its position
Invoked(k) ==
    CASE callers[k].pc = "create" ->
           IF callers[k].op.name \in DOMAIN registry.factories
           THEN {registry.factories[callers[k].op.name]} ELSE {}
      [] callers[k].pc = "construct" ->
           IF callers[k].local.ok THEN {callers[k].local.factory} ELSE {}
      [] callers[k].pc = "list2" ->
           {registry.factories[n] : n \in DOMAIN registry.factories \ callers[k].local.seen}
      [] callers[k].pc = "scan" ->
           IF \E n \in DOMAIN registry.instances : ToLower(n) = ToLower(callers[k].op.name)
           THEN {}
           ELSE {registry.factories[n] : n \in {m \in DOMAIN registry.factories :
                                                   ToLower(m) = ToLower(callers[k].op.name)}}
      [] OTHER -> {}

\* the invoked factories whose call into the registry is still to be made
Pending(k) ==
    IF callers[k].local.back # "none" THEN {}
    ELSE {f \in Invoked(k) : f.calls # "none"}

\* the read lock the operation holds while its factory runs: Create, List and
\* Find invoke the factory before their deferred RUnlock, Get after its RUnlock
HoldsRLock(k) == callers[k].local.back \in {"create", "list2", "scan"}

\* the body of a factory calls r.RegisterInstance(...) or r.Get(...)
FactoryCalls(k) ==
    /\ \E f \in Pending(k) :
         Goto(k, IF f.calls = "RegisterInstance" THEN "cbLock" ELSE "cbRLock",
              [callers[k].local EXCEPT !.factory = f, !.back = callers[k].pc])
    /\ UNCHANGED registry
    /\ RegFrame

\* the instance a calling factory registers
CallbackTool(f) == Instance(<<"e", "c">>, f.id)

\* RegisterInstance called by a factory: the store, the deferred Unlock, and
\* the return into the factory
CallbackRegister(k) ==
    /\ callers[k].pc = "cbRegister"
    /\ LET t == CallbackTool(callers[k].local.factory)
       IN  registry' = Unlock(StoreInstance(Observe(registry, t.name, "instance", t, NoFactory), t))
    /\ Goto(k, callers[k].local.back, callers[k].local)
    /\ RegFrame

\* Get of an unregistered name called by a factory: the lookup in r.instances,
\* its RUnlock, the lookup in r.factories, and the return into the factory
CallbackGet(k) ==
    /\ callers[k].pc = "cbGet"
    /\ registry' = IF HoldsRLock(k) THEN registry
                   ELSE [registry EXCEPT !.mu.readers = @ \ {k}]
    /\ Goto(k, callers[k].local.back, callers[k].local)
    /\ RegFrame

\* Create, between RLock and the deferred RUnlock
Create(k) ==
    /\ callers[k].pc = "create"
    /\ Pending(k) = {}
    /\ RUnlock(k)
    /\ Finish(k, CreateResult(callers[k].op.name, callers[k].op.config))
    /\ RegFrame

\* Find returns what its call of Get returned, or goes on to the scan
AfterGet(k, t, ok) ==
    IF callers[k].op.op = "Find" /\ ~ok THEN Goto(k, "findrlock", NoLocal)
    ELSE Finish(k, Ret(t, ok, NilError, EmptyBag))

\* Get under the read lock: the instance, or else the factory is read
GetLookup(k) ==
    /\ callers[k].pc = "get"
    /\ RUnlock(k)
    /\ IF callers[k].op.name \in DOMAIN registry.instances
       THEN AfterGet(k, registry.instances[callers[k].op.name], TRUE)
       ELSE Goto(k, "construct",
                 IF callers[k].op.name \in DOMAIN registry.factories
                 THEN [NoLocal EXCEPT !.factory = registry.factories[callers[k].op.name], !.ok = TRUE]
                 ELSE NoLocal)
    /\ RegFrame

\* variant: a failed construction is returned as found
GetConstructedAlways(f) == Ret(Construct(f, NilConfig).tool, TRUE, NilError, EmptyBag)

\* Get: t, err := factory(nil); the product, or absent when err != nil
GetConstructed(f) ==
    LET r == Construct(f, NilConfig)
    IN  IF r.err = NilError THEN Ret(r.tool, TRUE, NilError, EmptyBag) ELSE NoRet

\* variant: Get keeps the product as the instance of that name
ProductCached(r, n, t) == IF t = NilTool THEN r ELSE [r EXCEPT !.instances = Put(@, n, t)]

\* Get: the registry after factory(nil) returned; the product is not stored
ProductDropped(r, n, t) == r

\* Get after the read lock was released: the factory, if any, is invoked
GetConstruct(k) ==
    /\ callers[k].pc = "construct"
    /\ Pending(k) = {}
    /\ LET r == IF callers[k].local.ok THEN GetConstructed(callers[k].local.factory) ELSE NoRet
       IN  /\ AfterGet(k, r.tool, r.ok)
           /\ registry' = ProductDropped(registry, callers[k].op.name, r.tool)
    /\ RegFrame

\* variant: a failing factory ends the scan
ScanFactoriesFirstOnly(target) ==
    LET match == {n \in DOMAIN registry.factories : ToLower(n) = target}
    IN  IF match = {} THEN {NilTool}
        ELSE {Construct(registry.factories[n], NilConfig).tool : n \in match}

\* Find: the loop over r.factories; the map is visited in any order, the first
\* matching factory that constructs without error gives the result
ScanFactories(target) ==
    LET good == {n \in DOMAIN registry.factories :
                    ToLower(n) = target /\ ~registry.factories[n].fails}
    IN  IF good = {} THEN {NilTool}
        ELSE {Construct(registry.factories[n], NilConfig).tool : n \in good}

\* Find: the loop over r.instances, then the loop over r.factories
ScanResults(target) ==
    LET match == {n \in DOMAIN registry.instances : ToLower(n) = target}
    IN  IF match # {} THEN {registry.instances[n] : n \in match}
        ELSE ScanFactories(target)

\* Find: the case-insensitive scan between RLock and the deferred RUnlock
FindScan(k) ==
    /\ callers[k].pc = "scan"
    /\ Pending(k) = {}
    /\ RUnlock(k)
    /\ \E t \in ScanResults(ToLower(callers[k].op.name)) :
         Finish(k, Ret(t, t # NilTool, NilError, EmptyBag))
    /\ RegFrame

\* List: the loop over r.instances
ListInstances(k) ==
    /\ callers[k].pc = "list"
    /\ Goto(k, "list2", [NoLocal EXCEPT !.list = ValuesOf(registry.instances),
                                        !.seen = DOMAIN registry.instances])
    /\ UNCHANGED registry
    /\ RegFrame

\* variant: the seen check is missing
ListedFactoriesAll(seen) ==
    {n \in DOMAIN registry.factories : ~registry.factories[n].fails}

\* List: the factory names that add a default instance
ListedFactories(seen) ==
    {n \in DOMAIN registry.factories : n \notin seen /\ ~registry.factories[n].fails}

\* List: the loop over r.factories; the deferred RUnlock
ListFactories(k) ==
    /\ callers[k].pc = "list2"
    /\ Pending(k) = {}
    /\ RUnlock(k)
    /\ LET added == [n \in ListedFactories(callers[k].local.seen) |->
                        Construct(registry.factories[n], NilConfig).tool]
       IN  Finish(k, Ret(NilTool, TRUE, NilError, callers[k].local.list (+) ValuesOf(added)))
    /\ RegFrame

\* the caller takes the returned value
RegReturn(k) ==
    /\ callers[k].pc = "ret"
    /\ callers' = [callers EXCEPT ![k] = IdleCaller]
    /\ UNCHANGED registry
    /\ RegFrame

NextRegistry ==
    \/ \E k \in DOMAIN callers : RegInvoke(k)
    \/ \E k \in DOMAIN callers : Lock(k)
    \/ \E k \in DOMAIN callers : LockGranted(k)
    \/ \E k \in DOMAIN callers : RegisterFactory(k)
    \/ \E k \in DOMAIN callers : RegisterInstance(k)
    \/ \E k \in DOMAIN callers : RemoveFactory(k)
    \/ \E k \in DOMAIN callers : RemoveInstance(k)
    \/ \E k \in DOMAIN callers : RLock(k)
    \/ \E k \in DOMAIN callers : Create(k)
    \/ \E k \in DOMAIN callers : GetLookup(k)
    \/ \E k \in DOMAIN callers : GetConstruct(k)
    \/ \E k \in DOMAIN callers : FindScan(k)
    \/ \E k \in DOMAIN callers : ListInstances(k)
    \/ \E k \in DOMAIN callers : ListFactories(k)
    \/ \E k \in DOMAIN callers : RegReturn(k)

\* one caller at a time
SpecRegistry == InitRegistry /\ [][NextRegistry]_vars

\* several callers at once
SpecRegistryConc == InitRegistryConc /\ [][NextRegistry]_vars

\* names and values of the registry whose factories call back into it: one
\* name, a factory that calls RegisterInstance and one that calls Get
ReentrantUniverse ==
    [names |-> { <<"e", "c">> },
     lookups |-> { <<"e", "c">> },
     tools |-> { Instance(<<"e", "c">>, 1) },
     factories |-> { CallingFactory(1, "RegisterInstance"), CallingFactory(2, "Get") },
     configs |-> { NilConfig }]

InitRegistryReentrant == InitRegistryWith(NumCallers, ReentrantUniverse)

NextRegistryReentrant ==
    \/ NextRegistry
    \/ \E k \in DOMAIN callers : FactoryCalls(k)
    \/ \E k \in DOMAIN callers : CallbackRegister(k)
    \/ \E k \in DOMAIN callers : CallbackGet(k)

\* several callers and factories that call the registry that invokes them
SpecRegistryReentrant == InitRegistryReentrant /\ [][NextRegistryReentrant]_vars

\* ---------------------------------------------------------------- ToolContext
\* the zero value of ToolContext: empty strings, nil Context, Metadata, Logger, Storage
ZeroToolContext ==
    [isNil |-> FALSE, AgentID |-> EmptyString, SessionID |-> EmptyString,
     ExecutionID |-> EmptyString, Context |-> "nil",
     Metadata |-> [isNil |-> TRUE, entries |-> NoInput],
     Logger |-> "nil", Storage |-> "nil"]

\* make(map[string]any)
MakeMetadata == [isNil |-> FALSE, entries |-> NoInput]

\* the options: WithAgentID(id), WithSessionID(id), WithLogger(l)
Options ==
    { [opt |-> o, arg |-> id] : o \in {"WithAgentID", "WithSessionID"}, id \in {EmptyString, <<"a">>} }
    \cup { [opt |-> "WithLogger", arg |-> l] : l \in {"nil", "logger"} }

\* what an option does to the ToolContext
ApplyTo(tc, o) ==
    CASE o.opt = "WithAgentID" -> [tc EXCEPT !.AgentID = o.arg]
      [] o.opt = "WithSessionID" -> [tc EXCEPT !.SessionID = o.arg]
      [] OTHER -> [tc EXCEPT !.Logger = o.arg]

\* the argument lists of NewToolContext
OptionLists == UNION { [1..n -> Options] : n \in 0..MaxOptions }

InitContext ==
    /\ InitExecutor(0, {1}, {0}, {})
    /\ registry = NewRegistry
    /\ callers = EmptyMap
    /\ universe = NoUniverse
    /\ tcBuild \in { [pc |-> "call", opts |-> o, next |-> 0, tc |-> NilToolContext] : o \in OptionLists }

\* NewToolContext: the struct literal
NewToolContext ==
    /\ tcBuild.pc = "call"
    /\ tcBuild' = [tcBuild EXCEPT !.pc = "opts", !.next = 1,
                      !.tc = [ZeroToolContext EXCEPT !.Metadata = MakeMetadata,
                                                     !.Context = "background"]]
    /\ UNCHANGED <<execVars, timeVars, registry, callers, universe, impl>>

\* NewToolContext: one round of the loop over opts
ApplyOption ==
    /\ tcBuild.pc = "opts"
    /\ tcBuild.next <= Len(tcBuild.opts)
    /\ tcBuild' = [tcBuild EXCEPT !.next = @ + 1,
                                  !.tc = ApplyTo(@, tcBuild.opts[tcBuild.next])]
    /\ UNCHANGED <<execVars, timeVars, registry, callers, universe, impl>>

\* NewToolContext: return tc
ReturnToolContext ==
    /\ tcBuild.pc = "opts"
    /\ tcBuild.next > Len(tcBuild.opts)
    /\ tcBuild' = [tcBuild EXCEPT !.pc = "returned"]
    /\ UNCHANGED <<execVars, timeVars, registry, callers, universe, impl>>

NextContext ==
    \/ NewToolContext
    \/ ApplyOption
    \/ ReturnToolContext

SpecContext == InitContext /\ [][NextContext]_vars

\* ------------------------------------------------- calls with a cancelled context
\* direct calls of Execute whose context is cancelled before the call
InitCancelled ==
    /\ InitExecutorFrom(NumCalls, {1}, {0}, ConcurrentRequests, {[k \in 0..NumCalls |-> "canceled"]})
    /\ batchLen = 0
    /\ registry = NewRegistry
    /\ callers = EmptyMap
    /\ tcBuild = NoToolContextCall
    /\ universe = NoUniverse

NextCancelled ==
    \/ \E c \in Calls : Call(c)
    \/ \E c \in Calls : Acquire(c)
    \/ \E c \in Calls : AcquireCancelled(c)
    \/ \E c \in Calls : Validate(c)
    \/ \E c \in Calls : CheckApproval(c)
    \/ \E c \in Calls : ToolReturns(c)
    \/ \E c \in Calls : BackoffElapsed(c)
    \/ \E c \in Calls : BackoffCancelled(c)

SpecCancelled == InitCancelled /\ [][NextCancelled]_vars

\* ------------------------------------------------------- unvalidated policies
\* requests whose retry policy has a negative, zero or positive MaxRetries
UnvalidatedRequests ==
    { MkRequest(MkTool("t", enh, NilSchema, FALSE, pol, 0, {<<"a">>}), NoInput, NilToolContext) :
        enh \in BOOLEAN,
        pol \in {NilPolicy} \cup { Policy(n, pats) : n \in {0 - 2, 0 - 1, 0, 1},
                                                    pats \in {<<>>, << <<"b">> >>} } }

InitUnvalidated == InitWith(1, {1}, {0}, UnvalidatedRequests)

SpecUnvalidated == InitUnvalidated /\ [][Next]_vars

\* ------------------------------------------------------------- observations
\* number of invocations of the tool's Execute started by call c
Invocations(c) == Len(history[c]) + (IF pc[c] = "executing" THEN 1 ELSE 0)

Returned(c) == result[c].returned

\* calls between slot acquisition and return
Holding == {c \in Calls : pc[c] \in {"validate", "approval", "executing", "backoff"}}

Executing == {c \in Calls : pc[c] = "executing"}

\* the field names listed under "required" of the tool's schema
ListedRequired(c) ==
    LET sch == requests[c].Tool.schema
    IN  IF sch.isNil \/ sch.required.type \notin {"[]string", "[]any"} THEN {}
        ELSE {sch.required.elems[i].s : i \in {j \in DOMAIN sch.required.elems : sch.required.elems[j].isString}}

MissingRequired(c) == {f \in ListedRequired(c) : f \notin DOMAIN requests[c].Input}

\* the tool implements EnhancedTool and asks for approval
NeedsApproval(c) == requests[c].Tool.enhanced /\ requests[c].Tool.requiresApproval

\* the metadata of the tool context holds the boolean true under "approved"
HoldsApproval(c) ==
    LET tc == requests[c].Context
    IN  /\ ~tc.isNil
        /\ "approved" \in DOMAIN tc.Metadata
        /\ tc.Metadata["approved"] = [type |-> "bool", val |-> "true"]

\* the call passes admission, validation and the approval check
PassesGates(c) ==
    admitted[c] /\ MissingRequired(c) = {} /\ (NeedsApproval(c) => HoldsApproval(c))

\* the retry policy in force and the number of attempts it allows
HasPolicy(c) == requests[c].Tool.enhanced /\ ~requests[c].Tool.retryPolicy.isNil

AllowedAttempts(c) == IF HasPolicy(c) THEN 1 + requests[c].Tool.retryPolicy.MaxRetries ELSE 1

\* p occurs in s as a substring
Occurs(p, s) == \E i \in 1..(Len(s) + 1) : \E j \in (i - 1)..Len(s) : SubSeq(s, i, j) = p

\* err is retryable under the policy of call c
RetryableUnderPolicy(c, err) ==
    LET pats == requests[c].Tool.retryPolicy.RetryableErrors
    IN  HasPolicy(c) /\ (pats = <<>> \/ \E i \in DOMAIN pats : Occurs(pats[i], err.msg))

\* every one of the attempts h[1..n] failed with a retryable error
AllRetryableFailures(c, h, n) ==
    \A i \in 1..n : h[i].err # NoErr /\ RetryableUnderPolicy(c, h[i].err)

\* ------------------------------------------------------------------- claims
\* C1: with MaxConcurrency = k, at most k calls are between slot acquisition
\* and return, hence at most k tool executions are in progress, in every
\* reachable state and however many calls are made.
C1_ConcurrencyBounded ==
    /\ cfg.MaxConcurrency > 0 => executor.cap = cfg.MaxConcurrency
    /\ Cardinality(Holding) <= executor.cap
    /\ Cardinality(Executing) <= executor.cap

C1_Witness ==
    /\ numCalls > cfg.MaxConcurrency
    /\ Cardinality(Executing) = cfg.MaxConcurrency
    /\ \E c \in Calls : pc[c] = "acquire"

\* C2: the list ExecuteBatch returns has the length of the request list and
\* holds at index i the result Execute returned for requests[i], whatever the
\* priorities and the order in which the executions started and completed.
C2_BatchResultsAligned ==
    batchPc = "done" =>
        /\ Len(batchOut) = batchLen
        /\ \A i \in 1..batchLen :
             /\ batchOut[i] = result[i]
             /\ batchOut[i].returned
             /\ batchOut[i].req = i

C2_Witness ==
    /\ batchPc = "done"
    /\ batchLen >= 2
    /\ Items[1].idx # 1
    /\ batchOut[2].Success /\ ~batchOut[1].Success

\* C3: the pool holds exactly one token for every admitted call that has not
\* returned and none for any other call, on every return path; once all calls
\* have returned the pool is empty.
C3_SlotHeldUntilReturn ==
    /\ semaphore = Cardinality({c \in Calls : admitted[c] /\ ~Returned(c)})
    /\ \A c \in Calls : (admitted[c] /\ ~Returned(c)) <=> c \in Holding
    /\ (\A c \in Calls : Returned(c)) => semaphore = 0

C3_Witness ==
    /\ \A c \in Calls : Returned(c)
    /\ \E c \in Calls : admitted[c] /\ result[c].Error.kind = "ctx"
    /\ \E c \in Calls : admitted[c] /\ result[c].Error.kind \in {"validation", "approval"}
    /\ semaphore = 0

\* C4: a call whose tool implements EnhancedTool with RequiresApproval() = true
\* and whose tool context does not hold the boolean true under "approved" never
\* invokes the tool and returns success=false with attempts=0; the error is the
\* approval-required error once the call passed admission and validation.
C4_ApprovalGate ==
    \A c \in Calls : (NeedsApproval(c) /\ ~HoldsApproval(c)) =>
        /\ Invocations(c) = 0
        /\ Returned(c) =>
             /\ ~result[c].Success
             /\ result[c].Attempts = 0
             /\ (admitted[c] /\ MissingRequired(c) = {}) =>
                    /\ result[c].Error.kind = "approval"
                    /\ result[c].Error = ApprovalError(requests[c].Tool.name)

C4_Witness ==
    \E c \in Calls :
        /\ NeedsApproval(c)
        /\ requests[c].Context = Meta("string", "true")
        /\ Returned(c)
        /\ result[c].Error.kind = "approval"

\* C5: a call whose input lacks a key listed under "required" never invokes
\* the tool and returns success=false, with an error naming a missing field
\* once admitted; a call whose input has every listed key, with any value,
\* never returns a validation error.
C5_RequiredFields ==
    \A c \in Calls :
        /\ MissingRequired(c) # {} =>
             /\ Invocations(c) = 0
             /\ Returned(c) =>
                  /\ ~result[c].Success
                  /\ admitted[c] => \E f \in MissingRequired(c) : result[c].Error = ValidationError(f)
        /\ (MissingRequired(c) = {} /\ Returned(c)) => result[c].Error.kind # "validation"

C5_Witness ==
    \E c \in Calls :
        /\ requests[c].Tool.schema.required.type = "[]any"
        /\ Returned(c)
        /\ result[c].Error = ValidationError("y")

\* C6: a call waiting for a slot while all slots are held and its context is
\* cancelled can return at once and cannot be admitted; when it leaves the wait
\* it returns success=false with the context's error and attempts=0, the pool
\* is left as it was, and the tool is never invoked for it.
C6_CancelledWhileQueued ==
    /\ [](\A c \in Calls :
            /\ (pc[c] = "acquire" /\ ctx[CtxOf(c)] = "canceled" /\ semaphore = executor.cap)
                 => (ENABLED AcquireCancelled(c) /\ ~ENABLED Acquire(c))
            /\ (Returned(c) /\ ~admitted[c]) => (history[c] = <<>> /\ pc[c] \in {"returned", "done"}))
    /\ [][\A c \in Calls :
            (pc[c] = "acquire" /\ pc'[c] # "acquire" /\ semaphore = executor.cap) =>
                /\ ctx[CtxOf(c)] = "canceled"
                /\ pc'[c] = "returned"
                /\ result'[c] = [returned |-> TRUE, Success |-> FALSE, Output |-> NilOutput,
                                 Error |-> [kind |-> "ctx", msg |-> <<"canceled">>],
                                 Attempts |-> 0, req |-> c]
                /\ semaphore' = semaphore
                /\ ~admitted'[c]
                /\ history'[c] = <<>>]_vars

C6_Witness ==
    \E c \in Calls :
        /\ Returned(c) /\ ~admitted[c]
        /\ semaphore = executor.cap
        /\ \A d \in Calls \ {c} : d \in Holding

\* C7: after m <= MaxRetries attempts that all failed with a retryable error
\* an uncancelled call has not returned (it goes on to attempt m+1), and when
\* attempt m+1 succeeds the result is success=true, attempts=m+1, with the
\* output of that attempt.
C7_RetryThenSuccess ==
    \A c \in Calls :
        LET h == history[c]
            m == Len(h) - 1
        IN  /\ (Returned(c) /\ h # <<>> /\ h[Len(h)].err = NoErr /\ AllRetryableFailures(c, h, m)) =>
                 /\ m <= AllowedAttempts(c) - 1
                 /\ result[c].Success
                 /\ result[c].Error = NoErr
                 /\ result[c].Attempts = m + 1
                 /\ result[c].Output = h[m + 1].out
            /\ (PassesGates(c) /\ ctx[CtxOf(c)] = "live" /\ Len(h) < AllowedAttempts(c)
                  /\ AllRetryableFailures(c, h, Len(h))) => ~Returned(c)

C7_Witness ==
    \E c \in Calls :
        /\ requests[c].Tool.retryPolicy.MaxRetries = 3
        /\ requests[c].Tool.retryPolicy.RetryableErrors = << <<"b", "a">> >>
        /\ Returned(c)
        /\ result[c].Success
        /\ result[c].Attempts = 3

\* C8: a call never invokes the tool more than 1 + MaxRetries times (once
\* without a retry policy); when every attempt failed with a retryable error
\* and the caller did not cancel, the result is success=false with
\* attempts = 1 + MaxRetries and the error of the last attempt.
C8_AttemptsBounded ==
    \A c \in Calls :
        LET h == history[c]
        IN  /\ Invocations(c) <= AllowedAttempts(c)
            /\ (~HasPolicy(c)) => Invocations(c) <= 1
            /\ (Returned(c) /\ ctx[CtxOf(c)] = "live" /\ h # <<>> /\ AllRetryableFailures(c, h, Len(h))) =>
                 /\ ~result[c].Success
                 /\ result[c].Attempts = AllowedAttempts(c)
                 /\ Len(h) = AllowedAttempts(c)
                 /\ result[c].Error = h[Len(h)].err

C8_Witness ==
    \E c \in Calls :
        /\ HasPolicy(c)
        /\ requests[c].Tool.retryPolicy.MaxRetries = 2
        /\ Returned(c)
        /\ ctx[CtxOf(c)] = "live"
        /\ ~result[c].Success
        /\ result[c].Attempts = 3
        /\ Len(history[c]) = 3

\* C9: when an attempt that is not the last allowed one failed with an error
\* containing none of the (one or more) patterns of the policy, the call has
\* returned: no backoff, no further attempt, and the result carries that
\* attempt's error and the attempt count reached.
C9_NonRetryableStops ==
    \A c \in Calls :
        LET h == history[c]
            pats == requests[c].Tool.retryPolicy.RetryableErrors
        IN  (/\ h # <<>>
             /\ h[Len(h)].err # NoErr
             /\ Len(h) < AllowedAttempts(c)
             /\ pats # <<>>
             /\ \A i \in DOMAIN pats : ~Occurs(pats[i], h[Len(h)].err.msg)) =>
                /\ pc[c] \in {"returned", "done"}
                /\ ~result[c].Success
                /\ result[c].Error = h[Len(h)].err
                /\ result[c].Attempts = Len(h)

C9_Witness ==
    \E c \in Calls :
        /\ HasPolicy(c)
        /\ requests[c].Tool.retryPolicy.MaxRetries = 2
        /\ requests[c].Tool.retryPolicy.RetryableErrors = << <<"c">>, <<"a", "b">> >>
        /\ Returned(c)
        /\ Len(history[c]) = 1
        /\ result[c].Error = ToolErr(<<"b", "a">>)

\* C10: whenever an attempt before the last allowed one fails, the call goes
\* to the backoff wait (a retry) exactly when the policy's pattern set is empty
\* or the error message contains one of the patterns as a substring.
C10_RetryableClassification ==
    [][\A c \in Calls :
         LET h == history'[c]
         IN  (h # history[c] /\ h[Len(h)].err # NoErr /\ Len(h) < AllowedAttempts(c)) =>
                /\ (pc'[c] = "backoff") <=> RetryableUnderPolicy(c, h[Len(h)].err)
                /\ (pc'[c] # "backoff") => pc'[c] = "returned"]_vars

C10_Witness ==
    \E c \in Calls :
        /\ pc[c] = "backoff"
        /\ requests[c].Tool.retryPolicy.RetryableErrors = <<>>
        /\ Len(history[c]) = 2

\* C11: a call whose context is cancelled while it waits in the backoff after
\* its a-th failed attempt can return at once; when it returns from the wait
\* the result is success=false, the error is the context's cancellation error
\* and not the error of the attempt, attempts = a, and the tool is not invoked
\* again for this call.
C11_CancelledDuringBackoff ==
    /\ [](\A c \in Calls :
            (pc[c] = "backoff" /\ ctx[CtxOf(c)] = "canceled") => ENABLED BackoffCancelled(c))
    /\ [][\A c \in Calls :
            LET h == history[c]
                a == Len(h)
            IN  /\ (pc[c] = "backoff" /\ pc'[c] = "returned") =>
                     /\ ctx[CtxOf(c)] = "canceled"
                     /\ a >= 1 /\ h[a].err # NoErr
                     /\ ~result'[c].Success
                     /\ result'[c].Error = [kind |-> "ctx", msg |-> <<"canceled">>]
                     /\ result'[c].Error # h[a].err
                     /\ result'[c].Attempts = a
                     /\ history'[c] = h
                /\ (Returned(c) /\ result[c].Error.kind = "ctx") =>
                     (history'[c] = h /\ pc'[c] \in {"returned", "done"})]_vars

C11_Witness ==
    \E c \in Calls :
        /\ Returned(c)
        /\ result[c].Error.kind = "ctx"
        /\ result[c].Attempts = 2
        /\ AllowedAttempts(c) = 4
        /\ history[c][2].err = ToolErr(<<"b", "a">>)

\* min(InitialBackoff * BackoffMultiplier^i, MaxBackoff) in whole duration
\* units: the largest d <= MaxBackoff with d <= InitialBackoff * (num/den)^i
CappedDelay(policy, i) ==
    CHOOSE d \in 0..policy.MaxBackoff :
        /\ d * Pow(policy.BackoffMultiplier.den, i) <= policy.InitialBackoff * Pow(policy.BackoffMultiplier.num, i)
        /\ \A e \in 0..policy.MaxBackoff :
             e * Pow(policy.BackoffMultiplier.den, i) <= policy.InitialBackoff * Pow(policy.BackoffMultiplier.num, i)
                => e <= d

\* the backoff wait entered after the failure of the attempt with index i:
\* first(policy, d) is what the claim says of the first delay d
BackoffLaw(first(_, _)) ==
    \A c \in Calls :
         LET policy == requests[c].Tool.retryPolicy
             i == Len(history[c])
         IN  /\ (pc[c] = "executing" /\ pc'[c] = "backoff") =>
                  /\ delay'[c] = CappedDelay(policy, i)
                  /\ timer'[c] = now + delay'[c]
                  /\ delay'[c] <= policy.MaxBackoff
                  /\ (i = 0) => first(policy, delay'[c])
                  /\ (i > 0 /\ policy.BackoffMultiplier.num >= policy.BackoffMultiplier.den)
                       => delay'[c] >= delay[c]
             /\ (pc[c] = "backoff" /\ pc'[c] = "executing") => now >= timer[c]

FirstIsInitial(policy, d) == d = policy.InitialBackoff

FirstIsInitialCapped(policy, d) ==
    d = IF policy.InitialBackoff <= policy.MaxBackoff THEN policy.InitialBackoff ELSE policy.MaxBackoff

\* C12 as stated: the delay after the failure of attempt index i is
\* min(InitialBackoff * BackoffMultiplier^i, MaxBackoff), it equals
\* InitialBackoff after the first failure, never exceeds MaxBackoff and does
\* not decrease in i when the multiplier is at least 1.
C12_DelayAsStated == [][BackoffLaw(FirstIsInitial)]_vars

\* C12 amended: the delay after the failure of attempt index i is
\* min(InitialBackoff * BackoffMultiplier^i, MaxBackoff) in whole duration
\* units and the next attempt starts no earlier than that delay after the
\* failure; after the first failure it equals InitialBackoff when
\* InitialBackoff <= MaxBackoff and MaxBackoff otherwise; it never exceeds
\* MaxBackoff and does not decrease in i when the multiplier is at least 1.
C12_BackoffDelay == [][BackoffLaw(FirstIsInitialCapped)]_vars

C12_Witness ==
    \E c \in Calls :
        /\ pc[c] = "backoff"
        /\ Len(history[c]) = 3
        /\ requests[c].Tool.retryPolicy.InitialBackoff = 1
        /\ requests[c].Tool.retryPolicy.BackoffMultiplier = Ratio(2, 1)
        /\ requests[c].Tool.retryPolicy.MaxBackoff = 3
        /\ delay[c] = 3

\* the call passed validation and resolved its policy (timeout, retry, approval)
Resolved(c) ==
    /\ admitted[c]
    /\ MissingRequired(c) = {}
    /\ pc[c] \notin {"idle", "acquire", "validate", "approval"}

\* the default timeout the Executor was configured with, 60s when not configured
ConfiguredDefault == IF cfg.DefaultTimeout > 0 THEN cfg.DefaultTimeout ELSE 60

\* override when > 0, else Timeout() of an EnhancedTool when > 0, else the default
Precedence(c) ==
    IF requests[c].TimeoutOverride > 0 THEN requests[c].TimeoutOverride
    ELSE IF requests[c].Tool.enhanced /\ requests[c].Tool.timeout > 0 THEN requests[c].Tool.timeout
    ELSE ConfiguredDefault

\* a long-running EnhancedTool that sets no timeout, called without an override
Unbounded(c) ==
    /\ requests[c].Tool.enhanced
    /\ requests[c].Tool.longRunning
    /\ requests[c].Tool.timeout = 0
    /\ requests[c].TimeoutOverride = 0

\* the attempt in progress runs under a deadline t after its start
BoundedBy(c, t) ==
    pc[c] = "executing" =>
        (execCtx[c].hasDeadline /\ execCtx[c].deadline = now + t /\ execCtx[c].parent = CtxOf(c))

\* C13 as stated: for every combination of override, tool timeout and
\* configured default the effective per-attempt timeout is the override when
\* > 0, else the EnhancedTool's Timeout() when > 0, else the Executor's default
\* (60s when not configured), and it bounds the attempt.
C13_StrictPrecedence ==
    \A c \in Calls :
        Resolved(c) => (timeout[c] = Precedence(c) /\ BoundedBy(c, Precedence(c)))

\* C13 amended: the same precedence, except for a long-running EnhancedTool
\* with Timeout() = 0 called with TimeoutOverride = 0, whose timeout is 0.
C13_TimeoutPrecedence ==
    \A c \in Calls :
        Resolved(c) =>
            IF Unbounded(c) THEN timeout[c] = 0
            ELSE timeout[c] = Precedence(c) /\ BoundedBy(c, Precedence(c))

C13_Witness ==
    \E c \in Calls :
        /\ pc[c] = "executing"
        /\ requests[c].TimeoutOverride = 1
        /\ requests[c].Tool.enhanced /\ requests[c].Tool.timeout = 2
        /\ requests[c].Tool.longRunning
        /\ cfg.DefaultTimeout = 3
        /\ timeout[c] = 1

\* C14: every attempt of a long-running EnhancedTool with Timeout() = 0 called
\* without a timeout override runs with the caller's context itself, without a
\* deadline; with an override > 0 the override bounds each attempt, and
\* without one a Timeout() > 0 bounds each attempt.
C14_LongRunningUnbounded ==
    \A c \in Calls :
        (requests[c].Tool.enhanced /\ requests[c].Tool.longRunning /\ pc[c] = "executing") =>
            /\ Unbounded(c) =>
                 (~execCtx[c].hasDeadline /\ execCtx[c].parent = CtxOf(c) /\ timeout[c] = 0)
            /\ requests[c].TimeoutOverride > 0 => BoundedBy(c, requests[c].TimeoutOverride)
            /\ (requests[c].TimeoutOverride <= 0 /\ requests[c].Tool.timeout > 0)
                 => BoundedBy(c, requests[c].Tool.timeout)

C14_Witness ==
    \E c \in Calls :
        /\ Unbounded(c)
        /\ pc[c] = "executing"
        /\ Len(history[c]) = 1
        /\ ~execCtx[c].hasDeadline

\* C15: a tool that implements only the basic Tool interface runs with the
\* engine default in place of a timeout of its own (a request override still
\* applies), is never refused for lack of approval, is invoked exactly once
\* whatever error it returns, and has priority 0 in ExecuteBatch; the timeout,
\* approval, retry and priority values it may carry are not read.
C15_BasicToolDefaults ==
    \A c \in Calls :
        ~requests[c].Tool.enhanced =>
            /\ Resolved(c) =>
                 timeout[c] = IF requests[c].TimeoutOverride > 0 THEN requests[c].TimeoutOverride
                              ELSE ConfiguredDefault
            /\ Returned(c) => result[c].Error.kind # "approval"
            /\ Invocations(c) <= 1
            /\ (Returned(c) /\ admitted[c]) =>
                 /\ Len(history[c]) = 1
                 /\ result[c].Attempts = 1
                 /\ result[c].Error = history[c][1].err
            /\ c <= batchLen => \A p \in 1..Len(Items) : Items[p].idx = c => Items[p].priority = 0

C15_Witness ==
    \E c \in Calls :
        /\ ~requests[c].Tool.enhanced
        /\ requests[c].Tool.requiresApproval /\ requests[c].Context.isNil
        /\ ~requests[c].Tool.retryPolicy.isNil
        /\ requests[c].Tool.priority = 5
        /\ requests[c].Tool.timeout = 2 /\ requests[c].Tool.longRunning
        /\ requests[c].TimeoutOverride = 0
        /\ c <= batchLen
        /\ Returned(c) /\ ~result[c].Success /\ result[c].Attempts = 1
        /\ timeout[c] = 60

\* C16: a returned result has attempts = 0 exactly when the call was rejected
\* before any attempt: cancelled while waiting for a slot, input failing
\* validation, or approval required and not granted; such a call never invoked
\* the tool and failed. Every other result has attempts >= 1, the number of
\* invocations made.
C16_ZeroAttemptsIffRejected ==
    \A c \in Calls :
        Returned(c) =>
            /\ (result[c].Attempts = 0) <=> ~PassesGates(c)
            /\ ~PassesGates(c) =>
                 /\ history[c] = <<>>
                 /\ ~result[c].Success
                 /\ result[c].Error.kind \in {"ctx", "validation", "approval"}
            /\ PassesGates(c) =>
                 /\ result[c].Attempts >= 1
                 /\ result[c].Attempts = Len(history[c])

C16_Witness ==
    \E c \in Calls :
        /\ Returned(c)
        /\ result[c].Attempts = 0
        /\ admitted[c]
        /\ result[c].Error.kind = "validation"
        /\ NeedsApproval(c) /\ ~HoldsApproval(c)

\* the last invocation of call c
LastAttempt(c) == history[c][Len(history[c])]

\* C17 as stated: every failed result falls into exactly one of three classes
\* told apart by attempts alone: attempts = 0, the tool never ran;
\* attempts = maxAttempts, it ran and exhausted its retries; attempts = 1, it
\* ran once and failed with a non-retryable error (when maxAttempts = 1 the
\* last two coincide and the result is counted as exhausted).
C17_ThreeClasses ==
    \A c \in Calls :
        (Returned(c) /\ ~result[c].Success) =>
            LET n == result[c].Attempts
                never == n = 0
                exhausted == n = AllowedAttempts(c)
                once == n = 1 /\ AllowedAttempts(c) > 1
            IN  /\ never => history[c] = <<>>
                /\ exhausted => (Len(history[c]) = AllowedAttempts(c) /\ LastAttempt(c).err # NoErr)
                /\ once => (Len(history[c]) = 1 /\ ~RetryableUnderPolicy(c, LastAttempt(c).err))
                /\ never \/ exhausted \/ once
                /\ ~(never /\ exhausted) /\ ~(never /\ once) /\ ~(exhausted /\ once)

\* C17 amended: for every failed result attempts lies in 0..maxAttempts;
\* attempts = 0 exactly when the tool never ran; attempts = maxAttempts means it
\* ran maxAttempts times and the result carries the error of the last attempt;
\* 0 < attempts < maxAttempts means it ran attempts times and stopped early,
\* either on a non-retryable error of the last attempt (which the result
\* carries) or on a cancellation during the backoff after a retryable one.
C17_FailureClasses ==
    \A c \in Calls :
        (Returned(c) /\ ~result[c].Success) =>
            LET n == result[c].Attempts
            IN  /\ n \in 0..AllowedAttempts(c)
                /\ (n = 0) <=> (history[c] = <<>>)
                /\ n > 0 => (Len(history[c]) = n /\ LastAttempt(c).err # NoErr)
                /\ n = AllowedAttempts(c) => result[c].Error = LastAttempt(c).err
                /\ (0 < n /\ n < AllowedAttempts(c)) =>
                     \/ /\ ~RetryableUnderPolicy(c, LastAttempt(c).err)
                        /\ result[c].Error = LastAttempt(c).err
                     \/ /\ RetryableUnderPolicy(c, LastAttempt(c).err)
                        /\ result[c].Error.kind = "ctx"

C17_Witness ==
    \E c \in Calls :
        /\ Returned(c) /\ ~result[c].Success
        /\ result[c].Attempts = 2
        /\ AllowedAttempts(c) = 4
        /\ result[c].Error = ToolErr(<<"b">>)

\* C18: every returned result has Duration = FinishedAt - StartedAt and
\* StartedAt <= FinishedAt, on every return path.
C18_DurationConsistent ==
    \A c \in Calls :
        Returned(c) =>
            /\ times[c].Duration = times[c].FinishedAt - times[c].StartedAt
            /\ times[c].StartedAt <= times[c].FinishedAt

\* C19: every returned result has Success exactly when Error is nil; a result
\* is a success only when the last invocation of the tool succeeded, so every
\* failure (slot-wait cancellation, validation error, approval denial, tool
\* error after retries, cancellation during backoff) is a result with
\* success=false and an error; and a call inside Execute is never stuck: it can
\* always take its next step, unless it waits for a slot of a full pool with a
\* live context.
C19_FailuresAreResults ==
    [](\A c \in Calls :
        /\ Returned(c) =>
             /\ result[c].Success <=> (result[c].Error = NoErr)
             /\ result[c].Success => (PassesGates(c) /\ history[c] # <<>> /\ LastAttempt(c).err = NoErr)
             /\ (history[c] # <<>> /\ LastAttempt(c).err # NoErr) =>
                  result[c].Error \in {LastAttempt(c).err, [kind |-> "ctx", msg |-> <<"canceled">>]}
        /\ (pc[c] = "acquire" /\ (semaphore < executor.cap \/ ctx[CtxOf(c)] = "canceled"))
             => (ENABLED Acquire(c) \/ ENABLED AcquireCancelled(c))
        /\ pc[c] = "validate" => ENABLED Validate(c)
        /\ pc[c] = "approval" => ENABLED CheckApproval(c)
        /\ pc[c] = "executing" => ENABLED ToolReturns(c)
        /\ pc[c] = "backoff" => (ENABLED BackoffElapsed(c) \/ ENABLED BackoffCancelled(c)))

C19_Witness ==
    \E c \in Calls :
        /\ Returned(c) /\ ~result[c].Success
        /\ result[c].Error.kind = "tool"
        /\ result[c].Attempts = 4

\* the result of call c reports the cancellation of its context
CancellationOutcome(r) == ~r.Success /\ r.Error = [kind |-> "ctx", msg |-> <<"canceled">>]

\* C20: a call whose context is cancelled while it waits for a slot of a full
\* pool, while the tool runs, or while the backoff timer is pending, leaves
\* that wait by returning the cancellation outcome, whether or not the tool
\* observes its context.
C20_CancellationWins ==
    [][\A c \in Calls :
         (ctx[CtxOf(c)] = "canceled" /\ pc'[c] # pc[c]) =>
            /\ (pc[c] = "acquire" /\ semaphore = executor.cap) =>
                 (pc'[c] = "returned" /\ CancellationOutcome(result'[c]))
            /\ (pc[c] = "backoff" /\ now < timer[c]) =>
                 (pc'[c] = "returned" /\ CancellationOutcome(result'[c]))
            /\ (pc[c] = "executing" /\ pc'[c] = "returned") =>
                 CancellationOutcome(result'[c])]_vars

\* ------------------------------------------------------ Registry observations
RegNames == universe.names \cup universe.lookups

\* caller k holds the value its call of op returned
Returns(k, op) == callers[k].pc = "ret" /\ callers[k].op.op = op

\* no write is in progress
Quiescent == \A k \in DOMAIN callers : callers[k].pc \notin {"locking", "ri", "rf", "rm", "rm2"}

RegisteredBoth(n) == n \in DOMAIN registry.instances /\ n \in DOMAIN registry.factories

\* the caller whose Remove(n) is between its Lock and its Unlock
Removing(k, n) ==
    /\ callers[k].op.op = "Remove"
    /\ callers[k].op.name = n
    /\ callers[k].pc \in {"rm", "rm2"}

\* ---------------------------------------------------------------------- C21
\* C21 as stated: after any sequence of RegisterInstance, RegisterFactory and
\* Remove calls, no name is at the same time registered as a singleton
\* instance and as a factory.
C21_OneKindPerName == Quiescent => \A n \in RegNames : ~RegisteredBoth(n)

\* C21: a name can be registered as a singleton instance and as a factory at
\* the same time: a registration of one kind is taken away only by Remove of
\* that name, never by a registration of the other kind, and for a name
\* registered both ways Get resolves to the singleton and Create to the factory.
C21_KindsCoexist ==
    /\ [](\A k \in DOMAIN callers : \A n \in RegNames :
            RegisteredBoth(n) /\ callers[k].op.name = n =>
              /\ Returns(k, "Get") =>
                   callers[k].ret.ok /\ callers[k].ret.tool = registry.instances[n]
              /\ Returns(k, "Create") =>
                   /\ callers[k].ret.tool.kind # "instance"
                   /\ callers[k].ret.tool = Construct(registry.factories[n], callers[k].op.config).tool)
    /\ [][\A n \in RegNames :
            \/ /\ n \in DOMAIN registry.instances => n \in DOMAIN registry'.instances
               /\ n \in DOMAIN registry.factories => n \in DOMAIN registry'.factories
            \/ \E k \in DOMAIN callers : Removing(k, n)]_vars

\* a name registered both ways was looked up by Create
C21_Witness ==
    \E k \in DOMAIN callers :
        /\ Returns(k, "Create")
        /\ RegisteredBoth(callers[k].op.name)
        /\ Latest(registry, callers[k].op.name).kind = "instance"

\* ---------------------------------------------------------------------- C22
\* what Get and Create return when they resolve to the instance t
GetsInstance(k, t) == callers[k].ret.ok /\ callers[k].ret.tool = t
CreatesInstance(k, t) == callers[k].ret.tool = t /\ callers[k].ret.err = NilError

\* what Get and Create return when they resolve to the factory f
GetsProduct(k, f) ==
    IF f.fails THEN ~callers[k].ret.ok /\ callers[k].ret.tool = NilTool
    ELSE callers[k].ret.ok /\ callers[k].ret.tool = Product(f, NilConfig)
CreatesProduct(k, f) ==
    IF f.fails THEN callers[k].ret.tool = NilTool /\ callers[k].ret.err = ConstructError
    ELSE callers[k].ret.tool = Product(f, callers[k].op.config) /\ callers[k].ret.err = NilError

\* C22 as stated: after a second instance (or a second factory) was registered
\* under a name, Get and Create for that name resolve only to that most recent
\* registration.
C22_MostRecentWins ==
    \A k \in DOMAIN callers :
        LET last == Latest(registry, callers[k].op.name)
        IN  last.second =>
              /\ Returns(k, "Get") =>
                   IF last.kind = "instance" THEN GetsInstance(k, last.tool)
                   ELSE GetsProduct(k, last.factory)
              /\ Returns(k, "Create") =>
                   IF last.kind = "instance" THEN CreatesInstance(k, last.tool)
                   ELSE CreatesProduct(k, last.factory)

\* C22: RegisterInstance stores the tool under its own Name(), and a
\* registration overwrites the earlier registration of the same kind under
\* that name: Get resolves to the instance registered last, or without an
\* instance to the factory registered last; Create resolves to the factory
\* registered last, or without a factory to the instance registered last; an
\* earlier registration of the same kind is never returned.
C22_OverwriteWithinKind ==
    \A k \in DOMAIN callers :
        LET last == Latest(registry, callers[k].op.name)
        IN  /\ Returns(k, "RegisterInstance") =>
                 /\ callers[k].op.tool.name \in DOMAIN registry.instances
                 /\ registry.instances[callers[k].op.tool.name] = callers[k].op.tool
            /\ Returns(k, "Get") /\ last.kind # "none" =>
                 IF last.tool # NilTool THEN GetsInstance(k, last.tool)
                 ELSE GetsProduct(k, last.factory)
            /\ Returns(k, "Create") /\ last.kind # "none" =>
                 IF last.factory # NoFactory THEN CreatesProduct(k, last.factory)
                 ELSE CreatesInstance(k, last.tool)

\* a second factory was registered under a name and Create resolved to it
C22_Witness ==
    \E k \in DOMAIN callers :
        LET last == Latest(registry, callers[k].op.name)
        IN  /\ Returns(k, "Create")
            /\ last.second
            /\ last.kind = "factory"
            /\ last.factory.id = 2
            /\ callers[k].ret.tool = Product(last.factory, callers[k].op.config)

\* ---------------------------------------------------------------------- C23
\* C23: Create(name, config) returns what the factory registered under name
\* returns for config when a factory is registered; otherwise the instance
\* registered under name; otherwise a ToolNotFoundError carrying name, and it
\* returns not-found only when neither is registered.
C23_CreateResolution ==
    \A k \in DOMAIN callers :
        Returns(k, "Create") =>
          LET n == callers[k].op.name
          IN  /\ n \in DOMAIN registry.factories => CreatesProduct(k, registry.factories[n])
              /\ n \notin DOMAIN registry.factories /\ n \in DOMAIN registry.instances =>
                   CreatesInstance(k, registry.instances[n])
              /\ n \notin DOMAIN registry.factories /\ n \notin DOMAIN registry.instances =>
                   callers[k].ret.tool = NilTool /\ callers[k].ret.err = ToolNotFoundError(n)
              /\ callers[k].ret.err.kind = "notfound" <=>
                   n \notin DOMAIN registry.factories /\ n \notin DOMAIN registry.instances

\* Create passed a config to the factory of a name that also has an instance
C23_Witness ==
    \E k \in DOMAIN callers :
        /\ Returns(k, "Create")
        /\ RegisteredBoth(callers[k].op.name)
        /\ callers[k].op.config = "c1"
        /\ callers[k].ret.tool.kind = "product"
        /\ callers[k].ret.tool.config = "c1"

\* ---------------------------------------------------------------------- C24
\* C24: Get(name) returns the instance registered under name; with only a
\* factory registered, the factory's product for a nil config, or absent when
\* the factory fails; absent when nothing is registered; it returns no error.
C24_GetResolution ==
    \A k \in DOMAIN callers :
        Returns(k, "Get") =>
          LET n == callers[k].op.name
          IN  /\ n \in DOMAIN registry.instances => GetsInstance(k, registry.instances[n])
              /\ n \notin DOMAIN registry.instances /\ n \in DOMAIN registry.factories =>
                   GetsProduct(k, registry.factories[n])
              /\ n \notin DOMAIN registry.instances /\ n \notin DOMAIN registry.factories =>
                   ~callers[k].ret.ok /\ callers[k].ret.tool = NilTool
              /\ callers[k].ret.err = NilError

\* Get found only a failing factory and returned absent
C24_Witness ==
    \E k \in DOMAIN callers :
        /\ Returns(k, "Get")
        /\ callers[k].op.name \notin DOMAIN registry.instances
        /\ callers[k].op.name \in DOMAIN registry.factories
        /\ registry.factories[callers[k].op.name].fails
        /\ ~callers[k].ret.ok

\* ---------------------------------------------------------------------- C25
\* the names whose factory is listed: no instance of that name, construction succeeds
DefaultListed ==
    {n \in DOMAIN registry.factories \ DOMAIN registry.instances : ~registry.factories[n].fails}

\* C25: List() returns exactly every registered instance plus one product,
\* built with a nil config, for each factory whose name is not an instance
\* name and whose construction succeeds.
C25_ListContents ==
    \A k \in DOMAIN callers :
        Returns(k, "List") =>
          /\ callers[k].ret.list =
               ValuesOf(registry.instances)
               (+) ValuesOf([n \in DefaultListed |-> Product(registry.factories[n], NilConfig)])
          /\ BagCardinality(callers[k].ret.list) =
               Cardinality(DOMAIN registry.instances) + Cardinality(DefaultListed)

\* List ran with one name, registered both ways, and returned only its instance
C25_Witness ==
    \E k \in DOMAIN callers :
        /\ Returns(k, "List")
        /\ \E n \in RegNames : RegisteredBoth(n) /\ ~registry.factories[n].fails
        /\ BagCardinality(callers[k].ret.list) = 1

\* ---------------------------------------------------------------------- C26
\* what is registered under n
Registration(r, n) ==
    [instance |-> IF n \in DOMAIN r.instances THEN r.instances[n] ELSE NilTool,
     factory |-> IF n \in DOMAIN r.factories THEN r.factories[n] ELSE NoFactory]

\* C26: when Remove(name) returns neither an instance nor a factory is
\* registered under name; as long as name has not been registered again Get
\* returns absent and Create returns not-found for it; the steps of Remove
\* leave the registrations under every other name unchanged.
C26_RemoveBoth ==
    /\ [](\A k \in DOMAIN callers :
            LET n == callers[k].op.name
            IN  /\ Returns(k, "Remove") => Registration(registry, n) = Registration(NewRegistry, n)
                /\ Returns(k, "Get") /\ Latest(registry, n).kind = "none" =>
                     ~callers[k].ret.ok /\ callers[k].ret.tool = NilTool
                /\ Returns(k, "Create") /\ Latest(registry, n).kind = "none" =>
                     callers[k].ret.tool = NilTool /\ callers[k].ret.err = ToolNotFoundError(n))
    /\ [][\A k \in DOMAIN callers :
            callers[k].pc \in {"rm", "rm2"} =>
              \A m \in RegNames \ {callers[k].op.name} :
                  Registration(registry', m) = Registration(registry, m)]_vars

\* Remove returned while another name is still registered both ways
C26_Witness ==
    \E k \in DOMAIN callers :
        /\ Returns(k, "Remove")
        /\ \E m \in RegNames \ {callers[k].op.name} : RegisteredBoth(m)

\* ---------------------------------------------------------------------- C27
\* the registered names equal to n ignoring case
MatchingInstances(n) == {m \in DOMAIN registry.instances : ToLower(m) = ToLower(n)}
MatchingFactories(n) == {m \in DOMAIN registry.factories : ToLower(m) = ToLower(n)}

\* Get(n) would succeed
Gettable(n) ==
    \/ n \in DOMAIN registry.instances
    \/ n \in DOMAIN registry.factories /\ ~registry.factories[n].fails

\* what Get(n) returns when it succeeds
Got(n) ==
    IF n \in DOMAIN registry.instances THEN registry.instances[n]
    ELSE Product(registry.factories[n], NilConfig)

\* Find(n) returns the exact-case Get result, else an instance matching
\* ignoring case, else the product of a factory matching ignoring case
FindOrder(k, n) ==
    /\ Gettable(n) => callers[k].ret.tool = Got(n)
    /\ ~Gettable(n) /\ MatchingInstances(n) # {} =>
         \E m \in MatchingInstances(n) : callers[k].ret.tool = registry.instances[m]
    /\ ~Gettable(n) /\ MatchingInstances(n) = {} /\ callers[k].ret.tool # NilTool =>
         \E m \in MatchingFactories(n) :
             callers[k].ret.tool = Product(registry.factories[m], NilConfig)

\* C27 as stated: Find(name) returns the exact-case Get result when that
\* succeeds, otherwise an instance matching ignoring case, otherwise the
\* product of a factory matching ignoring case, and nil only when no
\* registered name matches ignoring case.
C27_NilOnlyWithoutMatch ==
    \A k \in DOMAIN callers :
        Returns(k, "Find") =>
          LET n == callers[k].op.name
          IN  /\ FindOrder(k, n)
              /\ callers[k].ret.tool = NilTool =>
                   MatchingInstances(n) = {} /\ MatchingFactories(n) = {}

\* C27: Find(name) returns the exact-case Get result when that succeeds,
\* otherwise an instance matching ignoring case, otherwise the product of a
\* factory that matches ignoring case and constructs without error, and nil
\* exactly when no instance matches and no matching factory constructs.
C27_FindResolution ==
    \A k \in DOMAIN callers :
        Returns(k, "Find") =>
          LET n == callers[k].op.name
          IN  /\ FindOrder(k, n)
              /\ callers[k].ret.tool = NilTool <=>
                   /\ MatchingInstances(n) = {}
                   /\ \A m \in MatchingFactories(n) : registry.factories[m].fails

\* Find resolved a name by case to a factory, past a failing factory that matches too
C27_Witness ==
    \E k \in DOMAIN callers :
        /\ Returns(k, "Find")
        /\ callers[k].op.name = <<"E", "c">>
        /\ callers[k].ret.tool.kind = "product"
        /\ \E m \in MatchingFactories(callers[k].op.name) : registry.factories[m].fails

\* ---------------------------------------------------------------------- C28
\* the callers between Lock and Unlock, and between RLock and RUnlock
Writing == {k \in DOMAIN callers : callers[k].pc \in {"ri", "rf", "rm", "rm2"}}
Reading == {k \in DOMAIN callers : callers[k].pc \in {"create", "get", "scan", "list", "list2"}}

\* a Remove has deleted the factory of a name and not yet its instance
HalfRemoved(n) ==
    /\ \E k \in DOMAIN callers : callers[k].pc = "rm2" /\ callers[k].op.name = n
    /\ n \in DOMAIN registry.instances

\* C28: under any interleaving of concurrent calls at most one write is
\* between its Lock and Unlock, no read accesses the maps meanwhile, no read
\* sees a name whose Remove has deleted the factory and not yet the instance,
\* and the maps do not change between the two loops of a List.
C28_WritesExclusive ==
    /\ Cardinality(Writing) <= 1
    /\ Writing # {} => Reading = {}
    /\ Reading = registry.mu.readers
    /\ \A n \in RegNames : HalfRemoved(n) => Reading = {}
    /\ \A k \in DOMAIN callers :
         callers[k].pc = "list2" =>
           /\ callers[k].local.seen = DOMAIN registry.instances
           /\ callers[k].local.list = ValuesOf(registry.instances)

\* a Remove is half applied to a name registered both ways while a read
\* waits for the lock
C28_Witness ==
    /\ HalfRemoved(<<"e", "c">>)
    /\ Latest(registry, <<"e", "c">>).factory # NoFactory
    /\ <<"e", "c">> \notin DOMAIN registry.factories
    /\ \E k \in DOMAIN callers : callers[k].pc = "rlock"

\* ---------------------------------------------------------------------- C29
\* the returned ToolContext has a non-nil Metadata map without entries
MetadataInitialized ==
    tcBuild.pc = "returned" =>
        ~tcBuild.tc.Metadata.isNil /\ DOMAIN tcBuild.tc.Metadata.entries = {}

\* C29: every ToolContext returned by NewToolContext, for any combination of
\* options, has a non-empty ExecutionID and a non-nil empty Metadata map.
C29_ContextInitialized ==
    tcBuild.pc = "returned" =>
        /\ tcBuild.tc.ExecutionID # EmptyString
        /\ ~tcBuild.tc.Metadata.isNil
        /\ DOMAIN tcBuild.tc.Metadata.entries = {}

\* ---------------------------------------------------------------------- C30
\* ExecuteBatch has returned
BatchReturned == batchPc = "done"

\* C30: ExecuteBatch returns only after the Execute call of every request has
\* returned, every entry of the returned list is then a result, and a batch of
\* more requests than slots always completes: no request waits for a slot for ever.
C30_BatchCompletes ==
    /\ [](BatchReturned =>
            /\ \A c \in 1..batchLen : pc[c] = "done"
            /\ Len(batchOut) = batchLen
            /\ \A i \in 1..batchLen : batchOut[i] # NoResult)
    /\ <>BatchReturned
    /\ \A c \in 1..NumCalls : (pc[c] = "acquire") ~> (pc[c] # "acquire")

\* a batch of more requests than slots returned with every request admitted
C30_Witness ==
    /\ BatchReturned
    /\ batchLen > executor.cap
    /\ \A c \in 1..batchLen : admitted[c] /\ batchOut[c] = result[c]

\* ---------------------------------------------------------------------- C31
\* C31: once an attempt returned without error the call has returned: that
\* attempt is the last invocation, no backoff follows, and the result is
\* success=true with that attempt's output.
C31_SuccessStopsLoop ==
    \A c \in Calls :
        \A i \in 1..Len(history[c]) :
            history[c][i].err = NoErr =>
              /\ i = Len(history[c])
              /\ pc[c] \in {"returned", "done"}
              /\ result[c].Success
              /\ result[c].Error = NoErr
              /\ result[c].Output = history[c][i].out

\* a second attempt succeeded while retries remained
C31_Witness ==
    \E c \in Calls :
        /\ Len(history[c]) = 2
        /\ history[c][2].err = NoErr
        /\ AllowedAttempts(c) = 4
        /\ Returned(c)

\* ---------------------------------------------------------------------- C32
\* the stages of Execute and the moves between them
StageOrder ==
    { <<"idle", "acquire">>, <<"acquire", "validate">>, <<"acquire", "returned">>,
      <<"validate", "approval">>, <<"validate", "returned">>,
      <<"approval", "executing">>, <<"approval", "returned">>,
      <<"executing", "backoff">>, <<"executing", "returned">>,
      <<"backoff", "executing">>, <<"backoff", "returned">>,
      <<"returned", "done">> }

\* C32: Execute passes through slot acquisition, input validation, approval
\* check and attempts in that order; validation and the approval check run
\* only while the slot is held, the tool is invoked only after both passed,
\* and a request that lacks a required field and lacks approval is reported
\* with the validation error.
C32_StageOrder ==
    /\ [](\A c \in Calls :
            /\ pc[c] \in {"validate", "approval", "executing", "backoff"} =>
                 admitted[c] /\ deferred[c] /\ semaphore >= 1
            /\ Invocations(c) > 0 => PassesGates(c)
            /\ (Returned(c) /\ admitted[c] /\ MissingRequired(c) # {}
                  /\ NeedsApproval(c) /\ ~HoldsApproval(c)) =>
                 (result[c].Error.kind = "validation" /\ result[c].Attempts = 0))
    /\ [][\A c \in Calls : pc'[c] # pc[c] => <<pc[c], pc'[c]>> \in StageOrder]_vars

\* an admitted request without a required field and without approval returned
C32_Witness ==
    \E c \in Calls :
        /\ Returned(c) /\ admitted[c]
        /\ MissingRequired(c) # {}
        /\ NeedsApproval(c) /\ ~HoldsApproval(c)

\* ---------------------------------------------------------------------- C33
\* the priority ExecuteBatch gives to request c
EffectivePriority(c) == IF requests[c].Tool.enhanced THEN requests[c].Tool.priority ELSE 0

\* request c is dispatched before request d
DispatchedBefore(c, d) ==
    \/ EffectivePriority(c) > EffectivePriority(d)
    \/ EffectivePriority(c) = EffectivePriority(d) /\ c < d

\* C33: ExecuteBatch spawns the requests in descending order of priority and,
\* among equal priorities, in their original order, the priority being
\* Priority() of an EnhancedTool and 0 otherwise: at every moment the requests
\* already spawned are those that come first in that order.
C33_DispatchOrder ==
    \A c \in 1..batchLen : \A d \in 1..batchLen :
        (pc[c] # "idle" /\ pc[d] = "idle") => DispatchedBefore(c, d)

\* the second request of a batch was spawned first, ahead of a basic tool
C33_Witness ==
    /\ batchLen = 2
    /\ batchPc = "dispatch"
    /\ pc[2] # "idle" /\ pc[1] = "idle"
    /\ ~requests[1].Tool.enhanced /\ requests[1].Tool.priority > requests[2].Tool.priority

\* ---------------------------------------------------------------------- C36
\* C36: in every result Execute returned the attempts field is the number of
\* times this call invoked the tool, on every path.
C36_AttemptsCountInvocations ==
    \A c \in Calls :
        /\ Returned(c) => result[c].Attempts = Len(history[c]) /\ Invocations(c) = Len(history[c])
        /\ attempts[c] = Invocations(c)

\* a call cancelled during the backoff after its second attempt
C36_Witness ==
    \E c \in Calls :
        /\ Returned(c)
        /\ result[c].Error.kind = "ctx"
        /\ result[c].Attempts = 2
        /\ Len(history[c]) = 2

\* ---------------------------------------------------------------------- C35
\* C35: a call made with a context that is already cancelled never invokes
\* the tool, and its result is the cancellation error with attempts = 0,
\* whether or not a slot is free.
C35_CancelledBeforeCall ==
    \A c \in Calls :
        ctx[CtxOf(c)] = "canceled" =>
          /\ Invocations(c) = 0
          /\ Returned(c) =>
               /\ ~result[c].Success
               /\ result[c].Error = CtxErr("canceled")
               /\ result[c].Attempts = 0

\* ---------------------------------------------------------------------- C37
\* C37: a result with success=true has attempts >= 1 and the tool returned
\* without error at least once, for every retry policy, negative MaxRetries
\* included.
C37_SuccessNeedsAttempt ==
    \A c \in Calls :
        (Returned(c) /\ result[c].Success) =>
          /\ result[c].Attempts >= 1
          /\ \E i \in 1..Len(history[c]) : history[c][i].err = NoErr

\* ---------------------------------------------------------------------- C38
\* the registrations: both maps, without the lock
Registrations(r) == [instances |-> r.instances, factories |-> r.factories]

\* C38: the steps of Get, Create, List and Find leave both maps unchanged, and
\* no product of a factory is ever stored as an instance: a name that has only
\* a factory still has only the factory after any read.
C38_ReadsLeaveRegistry ==
    /\ [](\A n \in DOMAIN registry.instances : registry.instances[n].kind = "instance")
    /\ [][\A k \in DOMAIN callers :
            (callers[k].op.op \in {"Get", "Create", "List", "Find"} /\ callers'[k] # callers[k]) =>
              Registrations(registry') = Registrations(registry)]_vars

\* Get returned the product of a factory and the name has no instance
C38_Witness ==
    \E k \in DOMAIN callers :
        /\ Returns(k, "Get")
        /\ callers[k].ret.tool.kind = "product"
        /\ callers[k].op.name \notin DOMAIN registry.instances
        /\ callers[k].op.name \in DOMAIN registry.factories

\* ---------------------------------------------------------------------- C39
\* caller k is inside an operation of the registry
InOperation(k) == callers[k].pc \notin {"idle", "ret"}

\* C39: no operation of the registry blocks forever: whenever every caller is
\* inside an operation, one of them can take its next step.
C39_NoOperationStuck ==
    (\A k \in DOMAIN callers : InOperation(k)) => ENABLED NextRegistryReentrant

\* ---------------------------------------------------------------------- C34
\* the request of call c does not require approval and is not long-running
Eligible(c) ==
    /\ ~RequiresApprovalOf(requests[c])
    /\ ~(requests[c].Tool.enhanced /\ requests[c].Tool.longRunning)

\* a step of Execute of call c, in the source with the approval gate
CanonicalStep(c) ==
    \/ Acquire(c) \/ AcquireCancelled(c) \/ Validate(c) \/ CheckApproval(c)
    \/ ToolReturns(c) \/ BackoffElapsed(c) \/ BackoffCancelled(c)

\* a step of Execute of call c, in the narrower source
NarrowStep(c) ==
    \/ NarrowAcquire(c) \/ NarrowAcquireCancelled(c) \/ NarrowValidate(c) \/ NarrowConfigure(c)
    \/ NarrowToolReturns(c) \/ NarrowBackoffElapsed(c) \/ NarrowBackoffCancelled(c)

\* C34: for a request that neither requires approval nor is long-running,
\* every step of Execute in one source is the same step of Execute in the other
\* (same invocation, with the same attempt context, same outcome, same result
\* and attempts), under the same cancellations; and in both sources
\* ExecuteBatch starts every request, stores and returns in the same way, and
\* returns at index i the result of Execute for request i.
C34_VariantsAgree ==
    /\ [][\A c \in Calls : Eligible(c) => (CanonicalStep(c) <=> NarrowStep(c))]_vars
    /\ [][/\ BatchStart <=> NarrowBatchStart
          /\ BatchReturn <=> NarrowBatchReturn
          /\ \A c \in Calls : Store(c) <=> NarrowStore(c)]_vars
    /\ [](batchPc \in {"wait", "done"} => \A i \in 1..batchLen : pc[i] # "idle")
    /\ [](batchPc = "done" =>
            /\ Len(batchOut) = batchLen
            /\ \A i \in 1..batchLen : batchOut[i] = result[i] /\ result[i].returned /\ result[i].req = i)

\* the narrower source returned a batch whose canonical dispatch order differs
\* from the order of the requests, with an eligible request that succeeded on
\* its second attempt
C34_Witness ==
    /\ impl = "narrow"
    /\ batchPc = "done"
    /\ batchLen = 2
    /\ Items[1].idx = 2
    /\ \E i \in 1..batchLen :
         /\ Eligible(i)
         /\ batchOut[i].Success
         /\ batchOut[i].Attempts = 2
====
